---- MODULE Spec2Model ----
(***************************************************************************)
(* PyBeam: planar Euler-Bernoulli beam models.                             *)
(*                                                                         *)
(* The module models the entity records (Node, BeamElement), the element   *)
(* matrices, the assembler (assemble_system_matrices, reindex_dof), the    *)
(* modal solver (get_modal_parameters) and the Newmark integrator          *)
(* (newmark).  Real numbers are exact rationals <<numerator, denominator>> *)
(* so that the linear algebra of the program is computed, not abstracted.  *)
(***************************************************************************)
EXTENDS Integers, Sequences, FiniteSets, TLC

(***************************************************************************)
(* Bounds of the model.                                                    *)
(***************************************************************************)
MaxNodes == 3
MaxFixed == 3
MaxReindexCalls == 2
MaxDof == 2
MaxSamples == 3
MaxModes == 2
MaxColumns == 2
MaxRows == 2
MaxPower == 4

(***************************************************************************)
(* Evaluation helpers.  A value that is used several times is bound once,  *)
(* so that it is computed once.                                            *)
(***************************************************************************)
Bind(v, F(_)) == CHOOSE r \in {F(x) : x \in {v}} : TRUE
Bind2(u, v, F(_, _)) == CHOOSE r \in {F(x, y) : x \in {u}, y \in {v}} : TRUE

(***************************************************************************)
(* Exact rational arithmetic (the program's float64 values).               *)
(***************************************************************************)
Abs(a) == IF a < 0 THEN -a ELSE a

RECURSIVE GCD(_, _)
GCD(a, b) == IF b = 0 THEN a ELSE GCD(b, a % b)

Rat(n, d) ==
    IF n = 0 THEN <<0, 1>>
    ELSE Bind(GCD(Abs(n), Abs(d)),
              LAMBDA g : IF d < 0 THEN <<(-n) \div g, (-d) \div g>>
                         ELSE <<n \div g, d \div g>>)

RInt(i) == <<i, 1>>
RZero == <<0, 1>>
ROne == <<1, 1>>

RAddV(p, q) ==
    IF p[1] = 0 THEN q
    ELSE IF q[1] = 0 THEN p
    ELSE IF p[2] = q[2] THEN Rat(p[1] + q[1], p[2])
    ELSE Bind(GCD(p[2], q[2]),
              LAMBDA g : Rat(p[1] * (q[2] \div g) + q[1] * (p[2] \div g),
                             p[2] * (q[2] \div g)))
RAdd(p, q) == Bind2(p, q, RAddV)
RNeg(p) == Bind(p, LAMBDA a : <<-a[1], a[2]>>)
RSub(p, q) == RAdd(p, RNeg(q))
RMulV(p, q) ==
    IF p[1] = 0 \/ q[1] = 0 THEN RZero
    ELSE IF p[2] = 1 /\ q[2] = 1 THEN <<p[1] * q[1], 1>>
    ELSE Bind2(Rat(p[1], q[2]), Rat(q[1], p[2]),
               LAMBDA a, b : <<a[1] * b[1], a[2] * b[2]>>)
RMul(p, q) == Bind2(p, q, RMulV)
RInv(p) == Bind(p, LAMBDA a : Rat(a[2], a[1]))
RDiv(p, q) == RMul(p, RInv(q))
RLess(p, q) == Bind2(p, q, LAMBDA a, b : a[1] * b[2] < b[1] * a[2])

(***************************************************************************)
(* Dense vectors and matrices (numpy arrays): a matrix is a sequence of    *)
(* rows.  Python position k is TLA+ position k + 1.                        *)
(***************************************************************************)
\* The sequence with the same entries, fully evaluated.
Seq1(f) == f \o <<>>

RECURSIVE RSum(_, _)
RSum(f, n) ==
    IF n = 0 THEN RZero
    ELSE IF f[n][1] = 0 THEN RSum(f, n - 1)
    ELSE Bind(RSum(f, n - 1), LAMBDA a : RAddV(a, f[n]))

DotV(u, v) == Bind(Seq1([k \in 1..Len(u) |-> RMulV(u[k], v[k])]), LAMBDA f : RSum(f, Len(f)))
Dot(u, v) == Bind2(u, v, DotV)
NCols(A) == IF Len(A) = 0 THEN 0 ELSE Len(A[1])
Col(A, j) == Seq1([i \in 1..Len(A) |-> A[i][j]])
Transpose(A) == Bind(A, LAMBDA M : Seq1([j \in 1..NCols(M) |-> Col(M, j)]))
MatMul(A, B) ==
    Bind2(A, Transpose(B),
          LAMBDA M, T : Seq1([i \in 1..Len(M) |-> Seq1([j \in 1..Len(T) |-> DotV(M[i], T[j])])]))
MatVec(A, v) == Bind2(A, v, LAMBDA M, w : Seq1([i \in 1..Len(M) |-> DotV(M[i], w)]))
MatScale(c, A) ==
    Bind2(c, A, LAMBDA k, M : Seq1([i \in 1..Len(M) |-> Seq1([j \in 1..Len(M[i]) |-> RMulV(k, M[i][j])])]))
MatAdd(A, B) ==
    Bind2(A, B, LAMBDA M, N : Seq1([i \in 1..Len(M) |-> Seq1([j \in 1..Len(M[i]) |-> RAddV(M[i][j], N[i][j])])]))
VecAdd(u, v) == Bind2(u, v, LAMBDA a, b : Seq1([i \in 1..Len(a) |-> RAddV(a[i], b[i])]))
VecSub(u, v) == Bind2(u, v, LAMBDA a, b : Seq1([i \in 1..Len(a) |-> RAddV(a[i], RNeg(b[i]))]))
VecScale(c, v) == Bind2(c, v, LAMBDA k, a : Seq1([i \in 1..Len(a) |-> RMulV(k, a[i])]))
Zeros(n, m) == Seq1([i \in 1..n |-> Seq1([j \in 1..m |-> RZero])])
IntMat(A) == Bind(A, LAMBDA M : Seq1([i \in 1..Len(M) |-> Seq1([j \in 1..Len(M[i]) |-> RInt(M[i][j])])]))

Identity(n) == Seq1([i \in 1..n |-> Seq1([j \in 1..n |-> IF i = j THEN ROne ELSE RZero])])
Shape(A) == <<Len(A), NCols(A)>>
\* Column c (from 0) of an array, and the array with that column replaced.
GetCol(A, c) == Col(A, c + 1)
SetCol(A, c, v) ==
    Bind2(A, v, LAMBDA M, w : Seq1([r \in 1..Len(M) |-> [M[r] EXCEPT ![c + 1] = w[r]]]))

\* The matrix without row i and column j.
Minor(A, i, j) ==
    Bind(A, LAMBDA M :
        Seq1([r \in 1..(Len(M) - 1) |->
            Seq1([c \in 1..(Len(M) - 1) |->
                M[IF r < i THEN r ELSE r + 1][IF c < j THEN c ELSE c + 1]])]))

\* Determinant by expansion along the first row.
RECURSIVE Det(_)
Det(A) ==
    IF Len(A) = 0 THEN ROne
    ELSE IF Len(A) = 1 THEN A[1][1]
    ELSE Bind(A, LAMBDA M :
            RSum(Seq1([j \in 1..Len(M) |->
                        IF M[1][j][1] = 0 THEN RZero
                        ELSE RMul(IF j % 2 = 1 THEN M[1][j] ELSE RNeg(M[1][j]),
                                  Det(Minor(M, 1, j)))]),
                 Len(M)))

\* scipy.linalg.inv: the inverse (adjugate over determinant), or the
\* LinAlgError of a singular matrix.
la_inv(A) ==
    Bind2(A, Det(A), LAMBDA M, d :
        IF d[1] = 0 THEN [ok |-> FALSE]
        ELSE [ok |-> TRUE,
              value |-> Seq1([i \in 1..Len(M) |-> Seq1([j \in 1..Len(M) |->
                           RDiv(IF (i + j) % 2 = 0 THEN Det(Minor(M, j, i))
                                ELSE RNeg(Det(Minor(M, j, i))), d)])])])

(***************************************************************************)
(* The same operations on matrices whose entries are whole numbers; the    *)
(* assembler is evaluated on sections and lengths for which every quotient *)
(* of the element matrices is exact.                                       *)
(***************************************************************************)
\* a / b for an exact quotient (no value otherwise).
Div(a, b) == CHOOSE q \in {a \div b} : q * b = a

RECURSIVE ISum(_, _)
ISum(f, n) == IF n = 0 THEN 0 ELSE ISum(f, n - 1) + f[n]

IDot(u, v) == Bind(Seq1([k \in 1..Len(u) |-> u[k] * v[k]]), LAMBDA f : ISum(f, Len(f)))
IMatMul(A, B) ==
    Bind2(A, Transpose(B),
          LAMBDA M, T : Seq1([i \in 1..Len(M) |-> Seq1([j \in 1..Len(T) |-> IDot(M[i], T[j])])]))
IMatScale(c, A) ==
    Bind2(c, A, LAMBDA k, M : Seq1([i \in 1..Len(M) |-> Seq1([j \in 1..Len(M[i]) |-> k * M[i][j]])]))
IZeros(n, m) == Seq1([i \in 1..n |-> Seq1([j \in 1..m |-> 0])])

(***************************************************************************)
(* float64 values where a division by zero can occur: a finite value (kept *)
(* as a rational), an infinity, or not-a-number.  numpy divides by zero    *)
(* without raising; the operations follow IEEE 754.                        *)
(***************************************************************************)
XFin(q) == [k |-> "fin", v |-> q]
XInf == [k |-> "inf", v |-> RZero]
XNegInf == [k |-> "-inf", v |-> RZero]
XNaN == [k |-> "nan", v |-> RZero]
XZero == XFin(RZero)
XInt(i) == XFin(RInt(i))
XIsZero(x) == x.k = "fin" /\ x.v = RZero
\* -1, 0 or 1
XSign(x) ==
    IF x.k = "inf" THEN 1
    ELSE IF x.k = "-inf" THEN -1
    ELSE IF x.v[1] > 0 THEN 1 ELSE IF x.v[1] < 0 THEN -1 ELSE 0
XSigned(sign) == IF sign > 0 THEN XInf ELSE XNegInf
XNeg(x) ==
    IF x.k = "nan" THEN XNaN
    ELSE IF x.k = "fin" THEN XFin(RNeg(x.v))
    ELSE XSigned(-XSign(x))
XAdd(x, y) ==
    IF x.k = "nan" \/ y.k = "nan" THEN XNaN
    ELSE IF x.k = "fin" /\ y.k = "fin" THEN XFin(RAdd(x.v, y.v))
    ELSE IF x.k = "fin" THEN y
    ELSE IF y.k = "fin" THEN x
    ELSE IF x.k = y.k THEN x ELSE XNaN
XMul(x, y) ==
    IF x.k = "nan" \/ y.k = "nan" THEN XNaN
    ELSE IF x.k = "fin" /\ y.k = "fin" THEN XFin(RMul(x.v, y.v))
    ELSE IF XIsZero(x) \/ XIsZero(y) THEN XNaN
    ELSE XSigned(XSign(x) * XSign(y))
XDiv(x, y) ==
    IF x.k = "nan" \/ y.k = "nan" THEN XNaN
    ELSE IF y.k = "fin"
    THEN IF ~XIsZero(y)
         THEN IF x.k = "fin" THEN XFin(RDiv(x.v, y.v)) ELSE XSigned(XSign(x) * XSign(y))
         ELSE IF XIsZero(x) THEN XNaN ELSE XSigned(XSign(x))
    ELSE IF x.k = "fin" THEN XZero ELSE XNaN
RECURSIVE XSum(_, _)
XSum(f, n) == IF n = 0 THEN XZero ELSE XAdd(XSum(f, n - 1), f[n])
XDot(u, v) == Bind(Seq1([k \in 1..Len(u) |-> XMul(u[k], v[k])]), LAMBDA f : XSum(f, Len(f)))
XMatVec(A, v) == Bind2(A, v, LAMBDA M, w : Seq1([i \in 1..Len(M) |-> XDot(M[i], w)]))
XIntMat(A) == Seq1([i \in 1..Len(A) |-> Seq1([j \in 1..Len(A[i]) |-> XInt(A[i][j])])])

(***************************************************************************)
(* Entity model.                                                           *)
(***************************************************************************)
None == <<>>
Some(d) == <<d>>

\* A numbering that strides the indices by two instead of three.
_set_dofs_stride2(index) == [i \in 1..3 |-> Some(index * 2 + (i - 1))]

\* Node._set_dofs: the three DOF identifiers derived from the index.
_set_dofs(index) == [i \in 1..3 |-> Some(index * 3 + (i - 1))]

\* attrs-generated Node.__init__.
Node(x, y, index, fix_u, fix_v, fix_theta) ==
    [x |-> x, y |-> y, index |-> index, dofs |-> _set_dofs(index),
     fix_u |-> fix_u, fix_v |-> fix_v, fix_theta |-> fix_theta]

ISqrt(n) == CHOOSE r \in 0..n : r * r = n

\* BeamElement._set_length: la.norm((dx, dy)).
_set_length(start, end) ==
    LET dx == end.x - start.x
        dy == end.y - start.y
    IN  ISqrt(dx * dx + dy * dy)

\* BeamElement._set_angle: arctan2(dy, dx), kept as its cosine and sine.
_set_angle(start, end) ==
    LET dx == end.x - start.x
        dy == end.y - start.y
        L == ISqrt(dx * dx + dy * dy)
    IN  IF L = 0 THEN [cos |-> 1, sin |-> 0]
        ELSE [cos |-> Div(dx, L), sin |-> Div(dy, L)]

\* attrs-generated BeamElement.__init__; start_node and end_node are
\* references (positions in the sequence nodes), ns is the heap of nodes.
BeamElement(ns, start_node, end_node, index, E, I, A, density) ==
    [start_node |-> start_node, end_node |-> end_node, index |-> index,
     modulus_of_elasticity |-> E, moment_of_inertia |-> I, area |-> A,
     density |-> density,
     length |-> _set_length(ns[start_node], ns[end_node]),
     angle |-> _set_angle(ns[start_node], ns[end_node])]

(***************************************************************************)
(* Element matrix builder (system_matrices.py).                            *)
(***************************************************************************)
create_rotation_matrix(element) ==
    LET cos == element.angle.cos
        sin == element.angle.sin
    IN  << <<cos, sin, 0, 0, 0, 0>>,
           <<-sin, cos, 0, 0, 0, 0>>,
           <<0, 0, 1, 0, 0, 0>>,
           <<0, 0, 0, cos, sin, 0>>,
           <<0, 0, 0, -sin, cos, 0>>,
           <<0, 0, 0, 0, 0, 1>> >>

\* The matrix for an element of length 0: every quotient is a division by
\* zero of float64 values.
create_stiffness_matrix_degenerate(element) ==
    LET E == XInt(element.modulus_of_elasticity)
        A == XInt(element.area)
        L == XInt(element.length)
        I == XInt(element.moment_of_inertia)
        O == XZero
        k_1 == XDiv(XMul(E, A), L)
        k_2 == XDiv(XMul(XMul(XInt(12), E), I), XMul(XMul(L, L), L))
        k_3 == XDiv(XMul(XMul(XInt(6), E), I), XMul(L, L))
        k_4 == XDiv(XMul(XMul(XInt(2), E), I), L)
        k_4_2 == XMul(XInt(2), k_4)
    IN  << <<k_1, O, O, XNeg(k_1), O, O>>,
           <<O, k_2, k_3, O, XNeg(k_2), k_3>>,
           <<O, k_3, k_4_2, O, XNeg(k_3), k_4>>,
           <<XNeg(k_1), O, O, k_1, O, O>>,
           <<O, XNeg(k_2), XNeg(k_3), O, k_2, XNeg(k_3)>>,
           <<O, k_3, k_4, O, XNeg(k_3), k_4_2>> >>

\* create_stiffness_matrix: a matrix of integers for an element of non-zero
\* length (every quotient is exact on the elements built here), a matrix of
\* float64 values (XFin, XInf, XNegInf, XNaN) for an element of length 0.
create_stiffness_matrix(element) ==
    LET E == element.modulus_of_elasticity
        A == element.area
        L == element.length
        I == element.moment_of_inertia
        k_1 == Div(E * A, L)
        k_2 == Div(12 * E * I, L * L * L)
        k_3 == Div(6 * E * I, L * L)
        k_4 == Div(2 * E * I, L)
    IN  IF L = 0 THEN create_stiffness_matrix_degenerate(element)
        ELSE
        << <<k_1, 0, 0, -k_1, 0, 0>>,
           <<0, k_2, k_3, 0, -k_2, k_3>>,
           <<0, k_3, 2 * k_4, 0, -k_3, k_4>>,
           <<-k_1, 0, 0, k_1, 0, 0>>,
           <<0, -k_2, -k_3, 0, k_2, -k_3>>,
           <<0, k_3, k_4, 0, -k_3, 2 * k_4>> >>

create_mass_matrix(element) ==
    LET rho == element.density
        A == element.area
        L == element.length
    IN  IMatScale(Div(rho * A * L, 420),
                  << <<140, 0, 0, 70, 0, 0>>,
                     <<0, 156, 22 * L, 0, 54, -13 * L>>,
                     <<0, 22 * L, 4 * L * L, 0, 13 * L, -3 * L * L>>,
                     <<70, 0, 0, 140, 0, 0>>,
                     <<0, 54, 13 * L, 0, 156, -22 * L>>,
                     <<0, -13 * L, -3 * L * L, 0, -22 * L, 4 * L * L>> >>)

\* rotation_matrix.T.dot(element_matrix).dot(rotation_matrix)
Rotated(rotation_matrix, element_matrix) ==
    IMatMul(IMatMul(Transpose(rotation_matrix), element_matrix), rotation_matrix)

(***************************************************************************)
(* Assembler (assembly.py).                                                *)
(***************************************************************************)
\* (*element.start_node.dofs, *element.end_node.dofs)
dof_element(ns, element) == ns[element.start_node].dofs \o ns[element.end_node].dofs

\* The identifiers counted once per element that references them.
n_dof_per_element(ns, es) == 6 * Len(es)

\* A count of the integer identifiers only, the marker None left out.
n_dof_integers(ns, es) ==
    Cardinality(UNION {{dof_element(ns, es[k])[i] : i \in 1..6} : k \in 1..Len(es)}
                \ {None})

\* len(set(itertools.chain(...))): the number of distinct DOF identifiers,
\* the marker None included when a node carries it.
n_dof(ns, es) ==
    Cardinality(UNION {{dof_element(ns, es[k])[i] : i \in 1..6} : k \in 1..Len(es)})

\* A value usable as a position of an axis of length n (Python indexing:
\* an integer in -n..n-1; None is not an index).
IsIndex(d, n) == d # None /\ d[1] >= -n /\ d[1] < n
\* The TLA+ position a valid Python index denotes.
Pos(d, n) == IF d[1] < 0 THEN d[1] + n + 1 ELSE d[1] + 1

\* matrix[np.ix_(dofs, dofs)] = block: the block replaces what is there.
ScatterAddV_overwrite(matrix, dofs, block) ==
    LET n == Len(matrix)
        Hit(p) == {i \in 1..6 : Pos(dofs[i], n) = p}
        Last(S) == CHOOSE i \in S : \A j \in S : j <= i
    IN  Bind(Seq1([p \in 1..n |-> IF Hit(p) = {} THEN 0 ELSE Last(Hit(p))]),
             LAMBDA loc :
                Seq1([r \in 1..n |-> Seq1([c \in 1..n |->
                    IF loc[r] # 0 /\ loc[c] # 0
                    THEN block[loc[r]][loc[c]]
                    ELSE matrix[r][c]])]))

\* matrix[np.ix_(dofs, dofs)] += block: the 6x6 sub-matrix is gathered,
\* block is added, and the sums are written back entry by entry in row-major
\* order, so that of several writes to one position the last one stays.
ScatterAddV(matrix, dofs, block) ==
    LET n == Len(matrix)
        Hit(p) == {i \in 1..6 : Pos(dofs[i], n) = p}
        Last(S) == CHOOSE i \in S : \A j \in S : j <= i
    IN  Bind(Seq1([p \in 1..n |-> IF Hit(p) = {} THEN 0 ELSE Last(Hit(p))]),
             LAMBDA loc :
                Seq1([r \in 1..n |-> Seq1([c \in 1..n |->
                    IF loc[r] # 0 /\ loc[c] # 0
                    THEN matrix[r][c] + block[loc[r]][loc[c]]
                    ELSE matrix[r][c]])]))
ScatterAdd(matrix, dofs, block) ==
    Bind2(matrix, <<dofs, block>>, LAMBDA m, a : ScatterAddV(m, a[1], a[2]))

\* One pass of the loop of assemble_system_matrices: acc holds the two
\* global matrices, or the failure of an index expression.
AssembleStep(ns, element, acc) ==
    LET dofs == dof_element(ns, element)
        n == Len(acc.global_stiffness_matrix)
    IN  IF \E i \in 1..6 : ~IsIndex(dofs[i], n)
        THEN [acc EXCEPT !.status = "IndexError"]
        ELSE Bind(create_rotation_matrix(element),
                  LAMBDA rotation_matrix :
                    [status |-> "ok", n_dof |-> acc.n_dof,
                     global_stiffness_matrix |->
                        ScatterAdd(acc.global_stiffness_matrix, dofs,
                                   Rotated(rotation_matrix, create_stiffness_matrix(element))),
                     global_mass_matrix |->
                        ScatterAdd(acc.global_mass_matrix, dofs,
                                   Rotated(rotation_matrix, create_mass_matrix(element)))])

\* The loop over elements k..Len(es).
RECURSIVE AssembleLoop(_, _, _, _)
AssembleLoop(ns, es, k, acc) ==
    IF k > Len(es) \/ acc.status # "ok" THEN acc
    ELSE Bind(AssembleStep(ns, es[k], acc), LAMBDA next : AssembleLoop(ns, es, k + 1, next))

\* A collection that looks at the flags of the two translations only.
_from_node_translations(node) ==
    {node.dofs[i] : i \in {j \in 1..2 : <<node.fix_u, node.fix_v>>[j]}}

\* _get_fixed_dofs._from_node: itertools.compress(node.dofs, flags).
_from_node(node) ==
    {node.dofs[i] : i \in {j \in 1..3 : <<node.fix_u, node.fix_v, node.fix_theta>>[j]}}

\* _get_fixed_dofs: the set collected over both nodes of every element.
_get_fixed_dofs(ns, es) ==
    UNION {_from_node(ns[es[k].start_node]) \cup _from_node(ns[es[k].end_node]) : k \in 1..Len(es)}

\* The orders in which list(fixed_dof) can list a set.
ListsOf(S) ==
    {s \in [1..Cardinality(S) -> S] : \A i, j \in 1..Cardinality(S) : s[i] = s[j] => i = j}

\* list(fixed_dof) of _get_fixed_dofs: the identifiers in increasing order,
\* the marker None last (np.delete reads the list as a set of positions).
RECURSIVE ListOf(_)
ListOf(S) ==
    IF S = {} THEN <<>>
    ELSE IF None \in S THEN ListOf(S \ {None}) \o <<None>>
    ELSE LET d == CHOOSE x \in S : \A y \in S : x[1] <= y[1]
         IN  <<d>> \o ListOf(S \ {d})

\* The positions p..n that obj does not list, in increasing order (the
\* keep-mask of np.delete).
RECURSIVE Kept(_, _, _)
Kept(obj, n, p) ==
    IF p > n THEN <<>>
    ELSE IF \E i \in 1..Len(obj) : Pos(obj[i], n) = p THEN Kept(obj, n, p + 1)
    ELSE <<p>> \o Kept(obj, n, p + 1)

\* np.delete(arr, obj, axis): a keep-mask over the axis is cleared at every
\* position listed in obj and the rows (axis 0) or columns (axis 1) that
\* stay are returned in their order.
np_delete(arr, obj, axis) ==
    Bind2(arr, Kept(obj, IF axis = 0 THEN Len(arr) ELSE NCols(arr), 1),
          LAMBDA a, keep :
             IF axis = 0 THEN Seq1([k \in 1..Len(keep) |-> a[keep[k]]])
             ELSE Seq1([i \in 1..Len(a) |-> Seq1([k \in 1..Len(keep) |-> a[i][keep[k]]])]))

\* An elimination that deletes the row and the column of one DOF after the
\* other, each from the matrix the deletions before it left.
RECURSIVE DeleteOneByOne(_, _, _)
DeleteOneByOne(matrix, fixed_dof, k) ==
    IF k > Len(fixed_dof) THEN matrix
    ELSE DeleteOneByOne(np_delete(np_delete(matrix, <<fixed_dof[k]>>, 0), <<fixed_dof[k]>>, 1),
                        fixed_dof, k + 1)
apply_boundary_conditions_sequential(matrix, fixed_dof) ==
    DeleteOneByOne(matrix, fixed_dof, 1)

\* np.delete(np.delete(matrix, fixed_dof, axis=0), fixed_dof, axis=1)
apply_boundary_conditions(matrix, fixed_dof) ==
    np_delete(np_delete(matrix, fixed_dof, 0), fixed_dof, 1)

\* Global matrices with one row for every identifier up to the largest.
GlobalMatrices_spanning(ns, es) ==
    LET ids == UNION {{dof_element(ns, es[k])[i] : i \in 1..6} : k \in 1..Len(es)}
        largest == CHOOSE d \in ids \ {None} : \A e \in ids \ {None} : e[1] <= d[1]
    IN  Bind(largest[1] + 1,
         LAMBDA n : Bind(IZeros(n, n),
            LAMBDA Z : AssembleLoop(ns, es, 1,
                          [status |-> "ok", n_dof |-> n,
                           global_stiffness_matrix |-> Z,
                           global_mass_matrix |-> Z])))

\* assemble_system_matrices, lines 19-36: n_dof and the two global matrices.
GlobalMatrices(ns, es) ==
    Bind(n_dof(ns, es),
         LAMBDA n : Bind(IZeros(n, n),
            LAMBDA Z : AssembleLoop(ns, es, 1,
                          [status |-> "ok", n_dof |-> n,
                           global_stiffness_matrix |-> Z,
                           global_mass_matrix |-> Z])))

\* assemble_system_matrices, lines 38-43: the elimination.
Reduced(glob, fixed_dof) ==
    IF glob.status # "ok"
    THEN [status |-> glob.status, n_dof |-> glob.n_dof]
    ELSE IF \E i \in 1..Len(fixed_dof) : ~IsIndex(fixed_dof[i], glob.n_dof)
    THEN [status |-> "IndexError", n_dof |-> glob.n_dof]
    ELSE [status |-> "ok", n_dof |-> glob.n_dof,
          global_stiffness_matrix |-> glob.global_stiffness_matrix,
          global_mass_matrix |-> glob.global_mass_matrix,
          fixed_dof |-> fixed_dof,
          reduced_stiffness_matrix |->
              apply_boundary_conditions(glob.global_stiffness_matrix, fixed_dof),
          reduced_mass_matrix |->
              apply_boundary_conditions(glob.global_mass_matrix, fixed_dof)]

\* assemble_system_matrices(elements): the outcome and, next to the returned
\* matrices, the values of the locals n_dof, global_*_matrix and fixed_dof.
assemble_system_matrices(ns, es) ==
    Bind2(GlobalMatrices(ns, es), ListOf(_get_fixed_dofs(ns, es)), Reduced)

\* A visit that subtracts the shift found on entering the node from all of
\* its free DOFs.
ReindexVisit_entryShift(ref, st) ==
    LET node == st.nodes[ref]
        flags == <<node.fix_u, node.fix_v, node.fix_theta>>
        dof_node == [i \in 1..3 |->
                        IF flags[i] THEN None
                        ELSE Some(node.dofs[i][1] - st.shift)]
    IN  IF node.index \in st.handled_nodes
        THEN st
        ELSE [nodes |-> [st.nodes EXCEPT ![ref].dofs = Seq1(dof_node)],
              shift |-> st.shift + Cardinality({j \in 1..3 : flags[j]}),
              handled_nodes |-> st.handled_nodes \cup {node.index}]

\* A visit that tells the handled nodes apart by the object, not by the
\* index it carries.
ReindexVisit_byObject(ref, st) ==
    LET node == st.nodes[ref]
        flags == <<node.fix_u, node.fix_v, node.fix_theta>>
        shiftAt(i) == st.shift + Cardinality({j \in 1..i : flags[j]})
        dof_node == [i \in 1..3 |->
                        IF flags[i] THEN None
                        ELSE Some(node.dofs[i][1] - shiftAt(i))]
    IN  IF (-ref) \in st.handled_nodes
        THEN st
        ELSE [nodes |-> [st.nodes EXCEPT ![ref].dofs = Seq1(dof_node)],
              shift |-> shiftAt(3),
              handled_nodes |-> st.handled_nodes \cup {-ref}]

\* One visit of a node by reindex_dof; st carries the heap of nodes, shift
\* and handled_nodes.
ReindexVisit(ref, st) ==
    LET node == st.nodes[ref]
        flags == <<node.fix_u, node.fix_v, node.fix_theta>>
        \* shift as it stands when position i has been handled
        shiftAt(i) == st.shift + Cardinality({j \in 1..i : flags[j]})
        dof_node == [i \in 1..3 |->
                        IF flags[i] THEN None
                        ELSE Some(node.dofs[i][1] - shiftAt(i))]
    IN  IF node.index \in st.handled_nodes
        THEN st
        ELSE [nodes |-> [st.nodes EXCEPT ![ref].dofs = Seq1(dof_node)],
              shift |-> shiftAt(3),
              handled_nodes |-> st.handled_nodes \cup {node.index}]

\* A loop that forgets the handled nodes from one visit to the next.
RECURSIVE ReindexLoop_forgetful(_, _, _)
ReindexLoop_forgetful(visits, k, st) ==
    IF k > Len(visits) THEN st
    ELSE Bind(ReindexVisit(visits[k], [st EXCEPT !.handled_nodes = {}]),
              LAMBDA next : ReindexLoop_forgetful(visits, k + 1, next))

\* The loop of reindex_dof over the visits k..Len(visits) (visits lists the
\* node references start_node, end_node element by element).
RECURSIVE ReindexLoop(_, _, _)
ReindexLoop(visits, k, st) ==
    IF k > Len(visits) THEN st
    ELSE Bind(ReindexVisit(visits[k], st), LAMBDA next : ReindexLoop(visits, k + 1, next))

Visits(es) == [k \in 1..2 * Len(es) |->
                 IF k % 2 = 1 THEN es[(k + 1) \div 2].start_node
                 ELSE es[k \div 2].end_node]

\* reindex_dof(elements): the heap of nodes after the call.
reindex_dof(ns, es) ==
    ReindexLoop(Visits(es), 1, [nodes |-> ns, shift |-> 0, handled_nodes |-> {}]).nodes



(***************************************************************************)
(* fatigue.py: stresses of an element from the displacements of its DOFs.  *)
(***************************************************************************)
\* The stiffness matrix as float64 values.
Float64Stiffness(element) ==
    IF element.length = 0 THEN create_stiffness_matrix(element)
    ELSE XIntMat(create_stiffness_matrix(element))

\* displacements_to_stresses(displacements, element, z), displacements a
\* vector (one column of a history).  reads lists the values the global
\* vector was indexed with, displacements is the global vector on return.
displacements_to_stresses(displacements, ns, element, z) ==
    LET dofs == dof_element(ns, element)
        n == Len(displacements)
        used == {i \in 1..6 : dofs[i] # None}
        element_displacements ==
            Seq1([i \in 1..6 |->
                IF i \in used THEN displacements[Pos(dofs[i], n)] ELSE XZero])
        rotated == XMatVec(XIntMat(create_rotation_matrix(element)), element_displacements)
        sign_changed(dotted) ==
            Seq1([i \in 1..6 |-> IF i >= 4 THEN XMul(dotted[i], XInt(-1)) ELSE dotted[i]])
        sigma_b(reactions, i) ==
            XMul(XDiv(reactions[i * 3 + 3], XInt(element.moment_of_inertia)), z)
        sigma_n(reactions, i) == XDiv(reactions[i * 3 + 1], XInt(element.area))
    IN  IF \E i \in used : ~IsIndex(dofs[i], n)
        THEN [status |-> "IndexError", displacements |-> displacements]
        ELSE Bind(sign_changed(XMatVec(Float64Stiffness(element), rotated)),
                  LAMBDA reactions :
                    [status |-> "ok",
                     stresses |-> Seq1([e \in 1..2 |->
                        <<sigma_n(reactions, e - 1), sigma_b(reactions, e - 1)>>]),
                     reads |-> SelectSeq(dofs, LAMBDA d : d # None),
                     displacements |-> displacements])

\* Every value of node other than "start" is taken for the end node.
node_index_lenient(node) ==
    IF node = "start" THEN [status |-> "ok", index |-> 0]
    ELSE [status |-> "ok", index |-> 1]

\* get_stress_history, lines 58-63: the end of the element node names.
node_index(node) ==
    IF node = "start" THEN [status |-> "ok", index |-> 0]
    ELSE IF node = "end" THEN [status |-> "ok", index |-> 1]
    ELSE [status |-> "ValueError"]

\* get_stress_history, lines 58-65: the argument check and the empty series.
\* computed counts the calls of displacements_to_stresses.
StressBegin(call) ==
    LET found == node_index(call.args.node)
    IN  IF found.status # "ok"
        THEN [pc |-> "raised", args |-> call.args, error |-> found.status, computed |-> 0]
        ELSE [pc |-> "loop", args |-> call.args, index |-> found.index, i |-> 0,
              computed |-> 0,
              stress_history |-> Seq1([c \in 1..call.args.displacements.shape[2] |-> XZero])]

\* sum(stresses[index]): the built-in sum starts from 0.
summed_stresses(stresses, index) ==
    XAdd(XAdd(XZero, stresses[index + 1][1]), stresses[index + 1][2])

\* One pass of the loop of get_stress_history, lines 66-71, on column i.
StressIteration(ns, es, f) ==
    LET x_i == f.args.displacements.columns[f.i + 1]
    IN  Bind(displacements_to_stresses(x_i, ns, es[f.args.element], f.args.z),
             LAMBDA out :
                IF out.status # "ok"
                THEN [pc |-> "raised", args |-> f.args, error |-> out.status,
                      computed |-> f.computed + 1]
                ELSE [stresses |-> out.stresses, reads |-> out.reads]
                     @@ [f EXCEPT !.i = f.i + 1,
                                  !.computed = f.computed + 1,
                                  !.stress_history[f.i + 1] =
                                        summed_stresses(out.stresses, f.index)])

(***************************************************************************)
(* datamodels.py: the csv loaders.  A record of csv.DictReader maps the    *)
(* column names to the text of the cells.  Python values that are compared *)
(* carry their type: a str never equals an int.                            *)
(***************************************************************************)
PyStr(text) == [type |-> "str", value |-> text]
PyInt(n) == [type |-> "int", value |-> n]
\* a == b
PyEq(a, b) == IF a.type # b.type THEN FALSE ELSE a.value = b.value
\* a in collection (a set or the keys of a dict)
PyIn(a, collection) == \E b \in collection : PyEq(a, b)

\* int(text) and float(text) of a cell holding one decimal digit.
DecimalDigits == <<"0", "1", "2", "3", "4", "5", "6", "7", "8", "9">>
py_int(text) == (CHOOSE k \in 1..10 : DecimalDigits[k] = text) - 1
py_float(text) == py_int(text)

\* _parse_bool_from_str, on a typed value.
_parse_bool_from_str(string) ==
    IF string.type = "bool" THEN string.value ELSE string.value = "true"

\* Node(**record)
NodeFromRecord(record) ==
    Node(py_float(record.x), py_float(record.y), py_int(record.index),
         _parse_bool_from_str(PyStr(record.fix_u)), _parse_bool_from_str(PyStr(record.fix_v)),
         _parse_bool_from_str(PyStr(record.fix_theta)))

\* record["index"] in existing_indices
IsDuplicate(record, existing_indices) ==
    PyIn(PyStr(record.index), existing_indices)

\* nodes_from_csv, lines 49-50: the locals before the first record.
NodesFromCsvBegin(file) ==
    [pc |-> "nodes", file |-> file, i |-> 0, nodes |-> <<>>,
     existing_indices |-> {}, warnings |-> {}]

\* One pass of the loop of nodes_from_csv, lines 53-58, on record i + 1;
\* warnings holds the numbers of the records a warning was logged for.
NodesRecord(c) ==
    LET record == c.file[c.i + 1]
        node == NodeFromRecord(record)
    IN  [c EXCEPT !.i = c.i + 1,
                  !.warnings = IF IsDuplicate(record, c.existing_indices)
                               THEN c.warnings \cup {c.i + 1} ELSE c.warnings,
                  !.existing_indices = c.existing_indices \cup {PyInt(node.index)},
                  !.nodes = Append(c.nodes, node)]

\* node_map = {node.index: node for node in nodes}: of the nodes of one
\* index the last stays.
node_map(ns) ==
    [index \in {PyInt(ns[k].index) : k \in 1..Len(ns)} |->
        CHOOSE k \in 1..Len(ns) :
            /\ ns[k].index = index.value
            /\ \A j \in 1..Len(ns) : ns[j].index = index.value => j <= k]

\* elements_from_csv, lines 93-97.
ElementsFromCsvBegin(file, ns) ==
    [pc |-> "elements", file |-> file, i |-> 0, elements |-> <<>>,
     node_map |-> node_map(ns), existing_indices |-> {}, warnings |-> {}]

\* One pass of the loop of elements_from_csv, lines 101-113.
ElementsRecord(c, ns) ==
    LET record == c.file[c.i + 1]
        start_node == PyInt(py_int(record.start_node))
        end_node == PyInt(py_int(record.end_node))
        warnings == IF IsDuplicate(record, c.existing_indices)
                    THEN c.warnings \cup {c.i + 1} ELSE c.warnings
        element == BeamElement(ns, c.node_map[start_node], c.node_map[end_node],
                               py_int(record.index),
                               py_float(record.modulus_of_elasticity),
                               py_float(record.moment_of_inertia),
                               py_float(record.area),
                               IF "density" \in DOMAIN record
                               THEN py_float(record.density) ELSE 0)
    IN  IF start_node \notin DOMAIN c.node_map \/ end_node \notin DOMAIN c.node_map
        THEN [pc |-> "raised", error |-> "KeyError", file |-> c.file, i |-> c.i,
              warnings |-> warnings]
        ELSE [c EXCEPT !.i = c.i + 1,
                       !.warnings = warnings,
                       !.existing_indices = c.existing_indices \cup {PyInt(element.index)},
                       !.elements = Append(c.elements, element)]

(***************************************************************************)
(* datamodels.py: the SN curve of EN 1993-1-9.  The curve is evaluated in  *)
(* exact real arithmetic on the positive reals 2^(a/15) * 5^(b/15), held   *)
(* as the pair <<a, b>>: they contain the categories and stress ranges     *)
(* 2^x * 5^y, the constants 2e6 and 5e6 and the factors (2/5)^(1/3) and    *)
(* (1/20)^(1/5), and are closed under products, quotients and powers.      *)
(***************************************************************************)
Mono(x, y) == <<15 * x, 15 * y>>
MMul(p, q) == <<p[1] + q[1], p[2] + q[2]>>
MDiv(p, q) == <<p[1] - q[1], p[2] - q[2]>>
MPow(p, m) == <<m * p[1], m * p[2]>>
\* 1832/789 < log2(5) < 1493/643, and no fraction with a denominator below
\* 1432 lies strictly between the two.
Log2Of5Below == <<1832, 789>>
Log2Of5Above == <<1493, 643>>
\* 2^(a/15) * 5^(b/15) > 1, that is a + b * log2(5) > 0, for |b| < 1432.
MAboveOne(e) ==
    IF e[2] = 0 THEN e[1] > 0
    ELSE IF e[2] > 0 THEN e[1] * Log2Of5Below[2] + Log2Of5Below[1] * e[2] >= 0
    ELSE e[1] * Log2Of5Above[2] + Log2Of5Above[1] * e[2] >= 0
\* p >= q
MGeq(p, q) == p = q \/ MAboveOne(MDiv(p, q))

\* A number of cycles: finite, or np.inf.
Cycles(n) == [k |-> "fin", v |-> n]
np_inf == [k |-> "inf"]

\* _set_d_sigma_d: (2 / 5) ** (1 / 3) * self.d_sigma_c
_set_d_sigma_d(d_sigma_c) == MMul(<<5, -5>>, d_sigma_c)
\* _set_d_sigma_l: (1 / 20) ** (1 / 5) * self.d_sigma_d
_set_d_sigma_l(d_sigma_d) == MMul(<<-6, -3>>, d_sigma_d)

\* SnCurveEurocode(d_sigma_c): the limits take their defaults.
SnCurveEurocode(d_sigma_c) ==
    [d_sigma_c |-> d_sigma_c,
     d_sigma_d |-> _set_d_sigma_d(d_sigma_c),
     d_sigma_l |-> _set_d_sigma_l(_set_d_sigma_d(d_sigma_c))]

\* The curve with the slope 3 on both branches.
get_cycles_at_range_slope3(self, stress_range) ==
    LET first == MGeq(stress_range, self.d_sigma_d)
        second == ~MGeq(stress_range, self.d_sigma_d) /\ MGeq(stress_range, self.d_sigma_l)
        m == 3
        sigma_ref == IF first THEN self.d_sigma_c ELSE self.d_sigma_d
        const == IF first THEN Mono(7, 6) ELSE Mono(6, 7)
    IN  IF ~first /\ ~second THEN np_inf
        ELSE Cycles(MDiv(MMul(const, MPow(sigma_ref, m)), MPow(stress_range, m)))

\* SnCurveEurocode.get_cycles_at_range; 2e6 = 2^7 * 5^6, 5e6 = 2^6 * 5^7.
get_cycles_at_range(self, stress_range) ==
    LET first == MGeq(stress_range, self.d_sigma_d)
        second == ~MGeq(stress_range, self.d_sigma_d) /\ MGeq(stress_range, self.d_sigma_l)
        m == IF first THEN 3 ELSE 5
        sigma_ref == IF first THEN self.d_sigma_c ELSE self.d_sigma_d
        const == IF first THEN Mono(7, 6) ELSE Mono(6, 7)
    IN  IF ~first /\ ~second THEN np_inf
        ELSE Cycles(MDiv(MMul(const, MPow(sigma_ref, m)), MPow(stress_range, m)))

(***************************************************************************)
(* plotting.py: the per-element deep copy of a list of elements.           *)
(***************************************************************************)
\* list(map(deepcopy, elements)): every element is copied on its own, with
\* its two nodes, so the copies of two elements share no node.  The heap
\* returned holds the copies only: those of element k at 2k - 1 and 2k.
deepcopy_elements(ns, es) ==
    [nodes |-> Seq1([p \in 1..(2 * Len(es)) |-> ns[Visits(es)[p]]]),
     elements |-> Seq1([k \in 1..Len(es) |->
                    [es[k] EXCEPT !.start_node = 2 * k - 1, !.end_node = 2 * k]])]

(***************************************************************************)
(* simulation.py: Newmark time integration.                                *)
(***************************************************************************)
\* A Newmark call is followed statement by statement: pc is "call" before
\* the body runs, "loop" at the head of the for loop, "returned" or "raised"
\* at its end.  i is the value the loop variable takes next.  reads is the
\* set of history and load columns the last iteration read, writes counts
\* the assignments made to each column of each history, steps lists the
\* values of i of the iterations run so far.

\* The two shape tuples compared by identity: they never are one object.
ShapesMatch_identity(stiffness, mass) == FALSE

\* stiffness.shape == mass.shape
ShapesMatch(stiffness, mass) == Shape(stiffness) = Shape(mass)

\* initial_acc of the call.
initial_acc(mass_inv, loads, damping, stiffness, initial_disp, initial_vel) ==
    VecSub(VecSub(MatVec(mass_inv, GetCol(loads, 0)), MatVec(damping, initial_vel)),
           MatVec(stiffness, initial_disp))

Raised(call, error, at) ==
    [pc |-> "raised", error |-> error, at |-> at, args |-> call.args, i |-> 0, steps |-> <<>>]

\* The body of newmark up to the for loop.
NewmarkBegin(call) ==
    LET args == call.args
        stiffness == args.stiffness
        mass == args.mass
        time == args.time
        size == Len(stiffness)    \* n_dof
        damping == IF args.damping = None THEN Zeros(size, size) ELSE args.damping
        loads == IF args.loads = None THEN Zeros(size, Len(time)) ELSE args.loads
        beta == args.beta
        gamma == args.gamma
    IN  IF ~ShapesMatch(stiffness, mass)
        THEN Raised(call, "ValueError", "Incorrect matrix dimensions")
        ELSE
        LET dt == RSub(time[2], time[1])
            a_1 == RDiv(ROne, RMul(beta, RMul(dt, dt)))
            a_2 == RDiv(ROne, RMul(beta, dt))
            a_3 == RDiv(ROne, RMul(RInt(2), beta))
            a_4 == RDiv(ROne, beta)
            eff_stiff == MatAdd(MatAdd(MatScale(a_1, mass), MatScale(RMul(a_2, gamma), damping)),
                                stiffness)
            mass_inv == la_inv(mass)
        IN  IF ~mass_inv.ok
            THEN Raised(call, "LinAlgError", "la.inv(mass)")
            ELSE
              [pc |-> "loop", args |-> args, i |-> 0, steps |-> <<>>,
               n_dof |-> size, damping |-> damping, loads |-> loads,
               dt |-> dt, a_1 |-> a_1, a_2 |-> a_2, a_3 |-> a_3, a_4 |-> a_4,
               eff_stiff |-> eff_stiff,
               displacements |-> SetCol(Zeros(size, Len(time)), 0, args.initial_disp),
               velocities |-> SetCol(Zeros(size, Len(time)), 0, args.initial_vel),
               accelerations |->
                   SetCol(Zeros(size, Len(time)), 0,
                          initial_acc(mass_inv.value, loads, damping, stiffness,
                                      args.initial_disp, args.initial_vel)),
               reads |-> {<<"loads", 0>>},
               writes |-> [h \in {"displacements", "velocities", "accelerations"} |->
                             Seq1([c \in 1..Len(time) |-> IF c = 1 THEN 1 ELSE 0])]]

\* An assignment to the column the iteration started from.
velocities_target_same(i) == i

\* The column of the velocity history assigned in iteration i.
velocities_target(i) == i + 1

\* One iteration of the for loop, for the current value of i.
NewmarkIteration(nm0) ==
    Bind(nm0, LAMBDA s :
      LET i == s.i
          mass == s.args.mass
          gamma == s.args.gamma
          u_i == GetCol(s.displacements, i)
          v_i == GetCol(s.velocities, i)
          acc_i == GetCol(s.accelerations, i)
          a_eff == MatVec(mass, VecAdd(VecAdd(VecScale(s.a_1, u_i), VecScale(s.a_2, v_i)),
                                       VecScale(RSub(s.a_3, ROne), acc_i)))
          v_eff == MatVec(s.damping,
                     VecAdd(VecAdd(VecScale(RMul(gamma, s.a_2), u_i),
                                   VecScale(RSub(RMul(gamma, s.a_4), ROne), v_i)),
                            VecScale(RMul(s.dt, RSub(RMul(gamma, s.a_3), ROne)), acc_i)))
          eff_inv == la_inv(s.eff_stiff)
      IN  IF ~eff_inv.ok
          THEN [pc |-> "raised", error |-> "LinAlgError", at |-> "la.inv(eff_stiff)",
                args |-> s.args, i |-> i, steps |-> s.steps]
          ELSE
          Bind(SetCol(s.displacements, i + 1,
                      MatVec(eff_inv.value, VecAdd(VecAdd(GetCol(s.loads, i + 1), a_eff), v_eff))),
               LAMBDA displacements :
            Bind(VecSub(GetCol(displacements, i + 1), GetCol(displacements, i)),
                 LAMBDA du :
              [s EXCEPT
                 !.displacements = displacements,
                 !.velocities =
                     SetCol(s.velocities, velocities_target(i),
                        VecSub(VecSub(VecScale(RMul(gamma, s.a_2), du),
                                      VecScale(RSub(RMul(gamma, s.a_4), ROne), v_i)),
                               VecScale(RMul(s.dt, RSub(RMul(gamma, s.a_3), ROne)), acc_i))),
                 !.accelerations =
                     SetCol(s.accelerations, i + 1,
                        VecSub(VecScale(s.a_1, VecSub(du, VecScale(s.dt, v_i))),
                               VecScale(RSub(s.a_3, ROne), acc_i))),
                 !.reads = {<<"displacements", i>>, <<"velocities", i>>,
                            <<"accelerations", i>>, <<"loads", i + 1>>,
                            <<"displacements", i + 1>>},
                 !.writes = [h \in DOMAIN s.writes |->
                               LET c == IF h = "velocities" THEN velocities_target(i) ELSE i + 1
                               IN  [s.writes[h] EXCEPT ![c + 1] = @ + 1]],
                 !.steps = Append(s.steps, i),
                 !.i = i + 1])))


(***************************************************************************)
(* modal_parameters.py: eigenfrequencies and modeshapes.                   *)
(***************************************************************************)
\* Square roots are kept exact: Surd(q) is the non-negative root of the
\* rational q >= 0, and a modeshape entry [num, over_sqrt] is the number
\* num / sqrt(over_sqrt).
Surd(q) == [sqrt_of |-> q]

\* np.sqrt of a real eigenvalue held in a complex array.
np_sqrt(ev) ==
    IF RLess(ev, RZero) THEN [real |-> Surd(RZero), imag |-> Surd(RNeg(ev))]
    ELSE [real |-> Surd(ev), imag |-> Surd(RZero)]

\* sorted(range(len(eigenvalues)), key=lambda x: eigenvalues[x]): the
\* positions (from 0) in ascending order of their eigenvalue, equal
\* eigenvalues in their original order.
sorting_mask(eigenvalues) ==
    Bind(eigenvalues, LAMBDA ev :
        Seq1([j \in 1..Len(ev) |->
            (CHOOSE x \in 1..Len(ev) :
                Cardinality({y \in 1..Len(ev) :
                    RLess(ev[y], ev[x]) \/ (ev[y] = ev[x] /\ y < x)}) = j - 1) - 1]))

\* array[:, mask]
TakeCols(A, mask) ==
    Bind2(A, mask, LAMBDA M, m :
        Seq1([r \in 1..Len(M) |-> Seq1([c \in 1..Len(m) |-> M[r][m[c] + 1]])]))

\* Each column divided by its entry of largest magnitude (its minimum when
\* that outweighs its maximum).
_normalize_eigenvectors_largest(eigenvectors, mass) ==
    Bind(eigenvectors, LAMBDA V :
        Bind(Seq1([c \in 1..NCols(V) |->
                    LET lo == CHOOSE x \in {V[r][c] : r \in 1..Len(V)} :
                                  \A r \in 1..Len(V) : ~RLess(V[r][c], x)
                        hi == CHOOSE x \in {V[r][c] : r \in 1..Len(V)} :
                                  \A r \in 1..Len(V) : ~RLess(x, V[r][c])
                    IN  IF RLess(hi, RNeg(lo)) THEN lo ELSE hi]),
             LAMBDA largest :
            Seq1([r \in 1..Len(V) |-> Seq1([c \in 1..NCols(V) |->
                [num |-> RDiv(V[r][c], largest[c]), over_sqrt |-> ROne]])])))

\* _normalize_eigenvectors(eigenvectors, mass)
_normalize_eigenvectors(eigenvectors, mass) ==
    Bind2(eigenvectors, mass, LAMBDA V, M :
        Bind(Seq1([c \in 1..NCols(V) |-> Dot(Col(V, c), MatVec(M, Col(V, c)))]),
             LAMBDA normalization_factors_squared :
            Seq1([r \in 1..Len(V) |-> Seq1([c \in 1..NCols(V) |->
                [num |-> V[r][c], over_sqrt |-> normalization_factors_squared[c]]])])))

\* A version that sorts the eigenvalues and leaves the eigenvector columns as
\* the solver listed them.
get_modal_parameters_unsortedVectors(stiffness, mass, normalize, eig) ==
    Bind(sorting_mask(eig.eigenvalues), LAMBDA mask :
        Bind(Seq1([j \in 1..Len(mask) |-> np_sqrt(eig.eigenvalues[mask[j] + 1])]),
             LAMBDA eigenfrequencies :
            [eigenfrequencies |-> Seq1([j \in 1..Len(mask) |-> eigenfrequencies[j].real]),
             modeshapes |-> _normalize_eigenvectors(eig.eigenvectors, mass),
             warning |-> \E j \in 1..Len(mask) : eigenfrequencies[j].imag # Surd(RZero)]))

\* get_modal_parameters(stiffness, mass, normalize), eig being what
\* la.eig(stiffness, mass) returned.
get_modal_parameters(stiffness, mass, normalize, eig) ==
    Bind(sorting_mask(eig.eigenvalues), LAMBDA mask :
        Bind(Seq1([j \in 1..Len(mask) |-> np_sqrt(eig.eigenvalues[mask[j] + 1])]),
             LAMBDA eigenfrequencies :
            [eigenfrequencies |-> Seq1([j \in 1..Len(mask) |-> eigenfrequencies[j].real]),
             modeshapes |-> _normalize_eigenvectors(TakeCols(eig.eigenvectors, mask), mass),
             warning |-> \E j \in 1..Len(mask) : eigenfrequencies[j].imag # Surd(RZero)]))


(***************************************************************************)
(* State.                                                                  *)
(***************************************************************************)
VARIABLES
    nodes,       \* the Node objects; an object is named by its position
    elements,    \* the list of BeamElement handed to the assembler
    asm,         \* outcome of the assemble_system_matrices call, if made
    calls,       \* number of reindex_dof calls made on elements
    nm,          \* the newmark call: its arguments, position and local variables
    modal,       \* the get_modal_parameters call: its arguments and what it returned
    fat,         \* the get_stress_history call: its arguments, position and local variables
    csv,         \* the csv loader call: the file, its position and local variables
    sn           \* the SN curve and the ranges it was asked about

vars == <<nodes, elements, asm, calls, nm, modal, fat, csv, sn>>

\* Coordinates of the k-th node created: three nodes on a line and a fourth
\* above the third, so that consecutive nodes are joined by collinear
\* horizontal beams and by a vertical beam.
Coord(k) ==
    << <<0, 0>>, <<2, 0>>, <<3, 0>>, <<3, 1>> >>[((k - 1) % 4) + 1]

\* Section properties and density of the elements.
Materials == {[E |-> 2, I |-> 1, A |-> 1, density |-> 420]}

\* The supports a node can have: free, roller, pinned, clamped
\* (fix_u, fix_v, fix_theta).
Supports ==
    {<<FALSE, FALSE, FALSE>>, <<FALSE, TRUE, FALSE>>, <<TRUE, TRUE, FALSE>>, <<TRUE, TRUE, TRUE>>}

NumFixed(ns) ==
    Cardinality({<<k, i>> \in (1..Len(ns)) \X (1..3) :
                    <<ns[k].fix_u, ns[k].fix_v, ns[k].fix_theta>>[i]})

Referenced(es) == {es[k].start_node : k \in 1..Len(es)} \cup {es[k].end_node : k \in 1..Len(es)}

Init ==
    /\ nodes = <<>>
    /\ elements = <<>>
    /\ asm = [status |-> "none"]
    /\ calls = 0
    /\ nm = [pc |-> "idle"]
    /\ modal = [pc |-> "idle"]
    /\ fat = [pc |-> "idle"]
    /\ csv = [pc |-> "idle"]
    /\ sn = [pc |-> "idle"]

\* Node(x, y, index, fix_u, fix_v, fix_theta): a new Node object.  Nodes are
\* created in increasing order of their indices; the indices are contiguous
\* from 0, or leave out 0, or leave out 1.
CreateNode ==
    /\ Len(nodes) < MaxNodes
    /\ elements = <<>>
    /\ \E index \in {Len(nodes), Len(nodes) + 1}, fix \in Supports :
          /\ IF index = Len(nodes) THEN TRUE
             ELSE IF Len(nodes) <= 1 THEN TRUE
             ELSE nodes[Len(nodes)].index = Len(nodes)
          /\ \A k \in 1..Len(nodes) : nodes[k].index < index
          /\ LET at == Coord(Len(nodes) + 1)
                 node == Node(at[1], at[2], index, fix[1], fix[2], fix[3])
             IN  /\ NumFixed(Append(nodes, node)) <= MaxFixed
                 /\ nodes' = Append(nodes, node)
    /\ UNCHANGED <<elements, asm, calls, nm, modal, fat, csv, sn>>

\* BeamElement(start_node, end_node, index, ...): a new element, appended to
\* the list, between two nodes created one after the other that no element
\* joins yet; either node can be its start.
CreateElement ==
    /\ asm.status = "none"
    /\ calls = 0
    /\ \E start_node, end_node \in 1..Len(nodes), mat \in Materials :
          /\ start_node - end_node \in {-1, 1}
          /\ \A k \in 1..Len(elements) :
                {elements[k].start_node, elements[k].end_node} # {start_node, end_node}
          /\ elements' = Append(elements,
                BeamElement(nodes, start_node, end_node, Len(elements),
                            mat.E, mat.I, mat.A, mat.density))
    /\ UNCHANGED <<nodes, asm, calls, nm, modal, fat, csv, sn>>

\* The analysis is run on a list that references every node.
Ready == elements # <<>> /\ Referenced(elements) = 1..Len(nodes)

\* assemble_system_matrices(elements)
AssembleSystemMatrices ==
    /\ Ready
    /\ asm.status = "none"
    /\ asm' = assemble_system_matrices(nodes, elements)
    /\ UNCHANGED <<nodes, elements, calls, nm, modal, fat, csv, sn>>

\* reindex_dof(elements); after an assembly it is called once.
ReindexDof ==
    /\ Ready
    /\ calls < MaxReindexCalls
    /\ asm.status = "none" \/ calls = 0
    /\ nodes' = reindex_dof(nodes, elements)
    /\ calls' = calls + 1
    /\ UNCHANGED <<elements, asm, nm, modal, fat, csv, sn>>

Next ==
    \/ CreateNode
    \/ CreateElement
    \/ AssembleSystemMatrices
    \/ ReindexDof

Spec == Init /\ [][Next]_vars


(***************************************************************************)
(* Time integration: the calls of newmark.                                 *)
(***************************************************************************)
\* Systems handed to newmark: a chain of unit springs and masses.
Tri(n, d, o) ==
    Seq1([i \in 1..n |-> Seq1([j \in 1..n |->
        IF i = j THEN RInt(d) ELSE IF i - j \in {-1, 1} THEN RInt(o) ELSE RZero])])
Unit(n, k) == Seq1([i \in 1..n |-> IF i = k THEN ROne ELSE RZero])
Stiffnesses(n) == {Tri(n, 2, -1)}
Masses(n) == {Identity(n), Tri(n, 2, 0)}
Dampings(n) == {None, Identity(n)}
\* No load, and a load on the first DOF growing with time.
Loads(n, N) ==
    {None,
     Seq1([r \in 1..n |-> Seq1([c \in 1..N |-> IF r = 1 THEN RInt(c - 1) ELSE RZero])])}
TimeSteps == {2}

Idle ==
    /\ nodes = <<>>
    /\ elements = <<>>
    /\ asm = [status |-> "none"]
    /\ calls = 0
    /\ fat = [pc |-> "idle"]
    /\ csv = [pc |-> "idle"]
    /\ sn = [pc |-> "idle"]

\* A call newmark(stiffness=..., mass=..., time=..., ...) is about to run.
\* The mass has the size of the stiffness or another size; every other
\* argument has the size of the stiffness.
InitNewmark ==
    /\ Idle
    /\ modal = [pc |-> "idle"]
    /\ \E n \in 1..MaxDof, n_mass \in 1..MaxDof, N \in 2..MaxSamples, step \in TimeSteps :
       \E stiffness \in Stiffnesses(n), mass \in Masses(n_mass), damping \in Dampings(n),
          loads \in Loads(n, N), initial_disp \in {Unit(n, 0), Unit(n, 1)},
          initial_vel \in {Unit(n, 0), Unit(n, n)} :
            nm = [pc |-> "call",
                  args |-> [stiffness |-> stiffness, mass |-> mass,
                            time |-> Seq1([k \in 1..N |-> RInt(step * (k - 1))]),
                            initial_disp |-> initial_disp, initial_vel |-> initial_vel,
                            loads |-> loads, damping |-> damping,
                            beta |-> Rat(1, 4), gamma |-> Rat(1, 2)]]

\* Lines 21 to 65: defaults, the shape check, the helper parameters and the
\* first column of each history.
NewmarkCall ==
    /\ nm.pc = "call"
    /\ nm' = NewmarkBegin(nm)
    /\ UNCHANGED <<nodes, elements, asm, calls, modal, fat, csv, sn>>

\* One pass through the body of: for i in range(len(time) - 1)
NewmarkStep ==
    /\ nm.pc = "loop"
    /\ nm.i < Len(nm.args.time) - 1
    /\ nm' = NewmarkIteration(nm)
    /\ UNCHANGED <<nodes, elements, asm, calls, modal, fat, csv, sn>>

\* The range is exhausted: return displacements, velocities, accelerations
NewmarkReturn ==
    /\ nm.pc = "loop"
    /\ nm.i = Len(nm.args.time) - 1
    /\ nm' = [nm EXCEPT !.pc = "returned"]
    /\ UNCHANGED <<nodes, elements, asm, calls, modal, fat, csv, sn>>

NextNewmark ==
    \/ NewmarkCall
    \/ NewmarkStep
    \/ NewmarkReturn

\* The call runs on one thread that nothing suspends.
SpecNewmark == InitNewmark /\ [][NextNewmark]_vars /\ WF_vars(NextNewmark)


(***************************************************************************)
(* Modal analysis: the calls of get_modal_parameters.                      *)
(***************************************************************************)
Diag(d) == Seq1([i \in 1..Len(d) |-> Seq1([j \in 1..Len(d) |-> IF i = j THEN RInt(d[i]) ELSE RZero])])

\* Uncoupled systems with growing, falling, twice the same and negative
\* stiffnesses, and the chain of springs.
ModalStiffnesses(n) ==
    {Diag([i \in 1..n |-> i]), Diag([i \in 1..n |-> n + 1 - i]),
     Diag([i \in 1..n |-> IF i <= 2 THEN 1 ELSE i - 1]), Diag([i \in 1..n |-> 2 * i - 3]),
     Tri(n, 2, -1)}
ModalMasses(n) == {Identity(n), Tri(n, 2, 0)}

\* la.eig(stiffness, mass): what the solver can return.  It lists n pairs of
\* an eigenvalue and an eigenvector, stiffness v = eigenvalue mass v, the
\* eigenvectors linearly independent, in an order and with a scaling of its
\* own.  Eigenvalues are looked for among the halves from -1 to MaxModes + 1,
\* eigenvectors among the vectors of entries -1, 0, 1.
Lambdas == {Rat(a, 2) : a \in (-2)..(2 * MaxModes + 2)}
SolverVectors(n) == {Seq1([i \in 1..n |-> RInt(f[i])]) : f \in [1..n -> {-1, 0, 1}]}
EigenPairs(stiffness, mass) ==
    {p \in Lambdas \X SolverVectors(Len(stiffness)) :
        /\ \E i \in 1..Len(p[2]) : p[2][i] # RZero
        /\ MatVec(stiffness, p[2]) = VecScale(p[1], MatVec(mass, p[2]))}
la_eig(stiffness, mass) ==
    Bind(EigenPairs(stiffness, mass), LAMBDA pairs :
        {out \in {[eigenvalues |-> Seq1([j \in 1..Len(stiffness) |-> f[j][1]]),
                   eigenvectors |-> Seq1([r \in 1..Len(stiffness) |->
                                       Seq1([c \in 1..Len(stiffness) |-> f[c][2][r]])])] :
                  f \in [1..Len(stiffness) -> pairs]} :
            Det(out.eigenvectors) # RZero})

\* A call get_modal_parameters(stiffness, mass, normalize) is about to run,
\* on a system the solver has an answer for.
InitModal ==
    /\ Idle
    /\ nm = [pc |-> "idle"]
    /\ \E n \in 1..MaxModes, normalize \in BOOLEAN :
       \E stiffness \in ModalStiffnesses(n), mass \in ModalMasses(n) :
          /\ la_eig(stiffness, mass) # {}
          /\ modal = [pc |-> "call", stiffness |-> stiffness, mass |-> mass,
                      normalize |-> normalize]

\* get_modal_parameters(stiffness, mass, normalize); eig records what la.eig
\* returned to it.
GetModalParameters ==
    /\ modal.pc = "call"
    /\ \E eig \in la_eig(modal.stiffness, modal.mass) :
          modal' = [pc |-> "returned", stiffness |-> modal.stiffness, mass |-> modal.mass,
                    normalize |-> modal.normalize, eig |-> eig,
                    returned |-> get_modal_parameters(modal.stiffness, modal.mass,
                                                      modal.normalize, eig)]
    /\ UNCHANGED <<nodes, elements, asm, calls, nm, fat, csv, sn>>

NextModal == GetModalParameters

SpecModal == InitModal /\ [][NextModal]_vars


(***************************************************************************)
(* Stress histories: one element between two nodes, the calls of           *)
(* reindex_dof and of get_stress_history on it.                            *)
(***************************************************************************)
\* Where the second node can be: on the first node, to its right, above it.
StressCoords == {<<0, 0>>, <<2, 0>>, <<0, 2>>}
StressSupports == {<<FALSE, FALSE, FALSE>>, <<TRUE, TRUE, TRUE>>}

\* A displacement history of the given shape: at rest, or growing with the
\* row and the column.
Displacements(rows, cols) ==
    {[shape |-> <<rows, cols>>,
      columns |-> Seq1([c \in 1..cols |-> Seq1([r \in 1..rows |-> XInt(g * (r + c - 1))])])] :
        g \in {0, 1}}

\* The rows of the global vector: one per DOF identifier still in use.
StressRows(ns) ==
    Cardinality({<<k, i>> \in (1..Len(ns)) \X (1..3) : ns[k].dofs[i] # None})

InitStress ==
    /\ Idle
    /\ nm = [pc |-> "idle"]
    /\ modal = [pc |-> "idle"]

\* Node(x, y, index, ...): the first node at the origin, then the second.
StressCreateNode ==
    /\ Len(nodes) < 2
    /\ \E at \in StressCoords, fix \in StressSupports :
          /\ Len(nodes) = 0 => at = <<0, 0>>
          /\ nodes' = Append(nodes, Node(at[1], at[2], Len(nodes), fix[1], fix[2], fix[3]))
    /\ UNCHANGED <<elements, asm, calls, nm, modal, fat, csv, sn>>

\* BeamElement(start_node, end_node, index, ...) between the two nodes.
StressCreateElement ==
    /\ Len(nodes) = 2
    /\ elements = <<>>
    /\ \E start_node, end_node \in 1..2, mat \in Materials :
          /\ start_node # end_node
          /\ elements' = <<BeamElement(nodes, start_node, end_node, 0,
                                       mat.E, mat.I, mat.A, mat.density)>>
    /\ UNCHANGED <<nodes, asm, calls, nm, modal, fat, csv, sn>>

\* reindex_dof(elements), before the history is evaluated.
StressReindexDof ==
    /\ elements # <<>>
    /\ fat.pc = "idle"
    /\ calls < MaxReindexCalls
    /\ nodes' = reindex_dof(nodes, elements)
    /\ calls' = calls + 1
    /\ UNCHANGED <<elements, asm, nm, modal, fat, csv, sn>>

\* get_stress_history(displacements, element, z, node) is called.
GetStressHistory ==
    /\ elements # <<>>
    /\ fat.pc = "idle"
    /\ \E cols \in 1..MaxColumns, z \in {XInt(0), XInt(1)},
          node \in {"start", "end", "middle"} :
       \E displacements \in Displacements(StressRows(nodes), cols) :
          fat' = [pc |-> "call",
                  args |-> [displacements |-> displacements, element |-> 1,
                            z |-> z, node |-> node]]
    /\ UNCHANGED <<nodes, elements, asm, calls, nm, modal, csv, sn>>

\* Lines 58 to 65.
StressArgument ==
    /\ fat.pc = "call"
    /\ fat' = StressBegin(fat)
    /\ UNCHANGED <<nodes, elements, asm, calls, nm, modal, csv, sn>>

\* One pass through the body of: for i, x_i in enumerate(displacements.T)
StressColumn ==
    /\ fat.pc = "loop"
    /\ fat.i < fat.args.displacements.shape[2]
    /\ fat' = StressIteration(nodes, elements, fat)
    /\ UNCHANGED <<nodes, elements, asm, calls, nm, modal, csv, sn>>

\* The columns are exhausted: return stress_history
StressReturn ==
    /\ fat.pc = "loop"
    /\ fat.i = fat.args.displacements.shape[2]
    /\ fat' = [fat EXCEPT !.pc = "returned"]
    /\ UNCHANGED <<nodes, elements, asm, calls, nm, modal, csv, sn>>

NextStress ==
    \/ StressCreateNode
    \/ StressCreateElement
    \/ StressReindexDof
    \/ GetStressHistory
    \/ StressArgument
    \/ StressColumn
    \/ StressReturn

SpecStress == InitStress /\ [][NextStress]_vars


(***************************************************************************)
(* Loading a model: nodes_from_csv, then elements_from_csv on its nodes.   *)
(***************************************************************************)
\* Rows of a nodes file: nodes on the x axis, free or pinned.
NodeRows ==
    {[index |-> index, x |-> x, y |-> "0", fix_u |-> fix, fix_v |-> fix, fix_theta |-> "false"] :
        index \in {"0", "1"}, x \in {"0", "2"}, fix \in {"true", "false"}}
\* Rows of an elements file without a density column.
ElementRows ==
    {[index |-> index, start_node |-> ends[1], end_node |-> ends[2],
      modulus_of_elasticity |-> "2", moment_of_inertia |-> "1", area |-> "1"] :
        index \in {"0", "1"}, ends \in {<<"0", "1">>, <<"1", "0">>}}
\* The files of one to MaxRows rows.
Files(rows) == UNION {[1..n -> rows] : n \in 1..MaxRows}

InitCsv ==
    /\ nodes = <<>>
    /\ elements = <<>>
    /\ asm = [status |-> "none"]
    /\ calls = 0
    /\ nm = [pc |-> "idle"]
    /\ modal = [pc |-> "idle"]
    /\ fat = [pc |-> "idle"]
    /\ sn = [pc |-> "idle"]
    /\ \E file \in Files(NodeRows) : csv = [pc |-> "call_nodes", file |-> file]

\* nodes_from_csv(file_path) up to the loop.
NodesFromCsv ==
    /\ csv.pc = "call_nodes"
    /\ csv' = NodesFromCsvBegin(csv.file)
    /\ UNCHANGED <<nodes, elements, asm, calls, nm, modal, fat, sn>>

\* for record in reader: one record.
NodesFromCsvRecord ==
    /\ csv.pc = "nodes"
    /\ csv.i < Len(csv.file)
    /\ csv' = NodesRecord(csv)
    /\ UNCHANGED <<nodes, elements, asm, calls, nm, modal, fat, sn>>

\* return nodes
NodesFromCsvReturn ==
    /\ csv.pc = "nodes"
    /\ csv.i = Len(csv.file)
    /\ nodes' = csv.nodes
    /\ csv' = [csv EXCEPT !.pc = "nodes_returned"]
    /\ UNCHANGED <<elements, asm, calls, nm, modal, fat, sn>>

\* elements_from_csv(file_path, nodes) up to the loop.
ElementsFromCsv ==
    /\ csv.pc = "nodes_returned"
    /\ \E file \in Files(ElementRows) : csv' = ElementsFromCsvBegin(file, nodes)
    /\ UNCHANGED <<nodes, elements, asm, calls, nm, modal, fat, sn>>

\* for record in reader: one record.
ElementsFromCsvRecord ==
    /\ csv.pc = "elements"
    /\ csv.i < Len(csv.file)
    /\ csv' = ElementsRecord(csv, nodes)
    /\ UNCHANGED <<nodes, elements, asm, calls, nm, modal, fat, sn>>

\* return elements
ElementsFromCsvReturn ==
    /\ csv.pc = "elements"
    /\ csv.i = Len(csv.file)
    /\ elements' = csv.elements
    /\ csv' = [csv EXCEPT !.pc = "elements_returned"]
    /\ UNCHANGED <<nodes, asm, calls, nm, modal, fat, sn>>

NextCsv ==
    \/ NodesFromCsv
    \/ NodesFromCsvRecord
    \/ NodesFromCsvReturn
    \/ ElementsFromCsv
    \/ ElementsFromCsvRecord
    \/ ElementsFromCsvReturn

SpecCsv == InitCsv /\ [][NextCsv]_vars


(***************************************************************************)
(* Fatigue life: an SN curve is created and asked about stress ranges.     *)
(***************************************************************************)
\* The detail categories 160, 125, 100 and 80.
Categories == {Mono(5, 1), Mono(0, 3), Mono(2, 2), Mono(4, 1)}
\* The stress ranges 2^x * 5^y, the three limits of the curve, and the
\* ranges a factor 2^(1/15) above and below each limit.
StressRanges(curve) ==
    {Mono(x, y) : x, y \in 0..MaxPower}
    \cup {MMul(limit, <<step, 0>>) :
            limit \in {curve.d_sigma_c, curve.d_sigma_d, curve.d_sigma_l}, step \in {-1, 0, 1}}

InitSn ==
    /\ Idle
    /\ nm = [pc |-> "idle"]
    /\ modal = [pc |-> "idle"]

\* curve = SnCurveEurocode(d_sigma_c)
CreateSnCurve ==
    /\ sn.pc = "idle"
    /\ \E d_sigma_c \in Categories : sn' = [pc |-> "created", curve |-> SnCurveEurocode(d_sigma_c)]
    /\ UNCHANGED <<nodes, elements, asm, calls, nm, modal, fat, csv>>

\* curve.get_cycles_at_range(stress_range)
GetCyclesAtRange ==
    /\ sn.pc \in {"created", "asked"}
    /\ \E stress_range \in StressRanges(sn.curve) :
          sn' = [pc |-> "asked", curve |-> sn.curve, stress_range |-> stress_range,
                 N |-> get_cycles_at_range(sn.curve, stress_range)]
    /\ UNCHANGED <<nodes, elements, asm, calls, nm, modal, fat, csv>>

NextSn ==
    \/ CreateSnCurve
    \/ GetCyclesAtRange

SpecSn == InitSn /\ [][NextSn]_vars


(***************************************************************************)
(* Copies: a list of elements is built, copied element by element, and the *)
(* copy is handed to reindex_dof.                                          *)
(***************************************************************************)
\* The Node objects are those CreateNode made, none of them a copy.
AsCreated ==
    \A k \in 1..Len(nodes) : <<nodes[k].x, nodes[k].y>> = Coord(k)

\* BeamElement(...) on the structure being built.
CopyCreateElement ==
    /\ AsCreated
    /\ CreateElement

\* elements = list(map(deepcopy, elements))
DeepCopyElements ==
    /\ Ready
    /\ calls = 0
    /\ LET copy == deepcopy_elements(nodes, elements)
       IN  /\ nodes' = copy.nodes
           /\ elements' = copy.elements
    /\ UNCHANGED <<asm, calls, nm, modal, fat, csv, sn>>

NextCopy ==
    \/ CreateNode
    \/ CopyCreateElement
    \/ DeepCopyElements
    \/ ReindexDof

SpecCopy == Init /\ [][NextCopy]_vars


(***************************************************************************)
(* Properties of the entity model and the assembler.                       *)
(***************************************************************************)
\* The identifier Node._set_dofs gave to DOF i of node k, and its fix flag.
Orig(k, i) == 3 * nodes[k].index + (i - 1)
Flag(k, i) == <<nodes[k].fix_u, nodes[k].fix_v, nodes[k].fix_theta>>[i]
AllDofs == (1..Len(nodes)) \X (1..3)
Restrained == {ki \in AllDofs : Flag(ki[1], ki[2])}
Free == AllDofs \ Restrained
\* The node indices are 0..m-1.
Contiguous == {nodes[k].index : k \in 1..Len(nodes)} = 0..(Len(nodes) - 1)
\* The place of the first visit reindex_dof pays to node k.
FirstVisit(k) == CHOOSE p \in 1..2 * Len(elements) :
                    /\ Visits(elements)[p] = k
                    /\ \A q \in 1..(p - 1) : Visits(elements)[q] # k
\* The nodes are first visited in increasing order of their indices.
VisitedInIndexOrder ==
    \A k, l \in 1..Len(nodes) :
        nodes[k].index < nodes[l].index => FirstVisit(k) < FirstVisit(l)

\* C1: on a chain whose nodes, indexed 0..m-1, are first visited in
\* increasing index order, one reindex_dof call leaves None in every
\* restrained DOF and, in every free DOF with original identifier d, d minus
\* the number of restrained DOFs with a smaller original identifier; the free
\* DOFs then are 0, 1, 2, ... without gaps.
C1_ReindexChain ==
    (calls = 1 /\ Contiguous /\ VisitedInIndexOrder) =>
        /\ \A ki \in Restrained : nodes[ki[1]].dofs[ki[2]] = None
        /\ \A ki \in Free :
              nodes[ki[1]].dofs[ki[2]] =
                 Some(Orig(ki[1], ki[2])
                      - Cardinality({r \in Restrained : Orig(r[1], r[2]) < Orig(ki[1], ki[2])}))
        /\ {nodes[ki[1]].dofs[ki[2]][1] : ki \in Free} = 0..(Cardinality(Free) - 1)

\* A three-node chain listed in order, first node pinned, second on a
\* roller, reindexed once.
C1_Witness ==
    /\ calls = 1 /\ Contiguous /\ VisitedInIndexOrder
    /\ Len(nodes) = 3 /\ Len(elements) = 2
    /\ nodes[1].dofs = <<None, None, Some(0)>>
    /\ nodes[2].dofs = <<Some(1), None, Some(2)>>
    /\ nodes[3].dofs = <<Some(3), Some(4), Some(5)>>

\* The row (and column) position, counted from 0, that the DOF with original
\* identifier d has in the reduced matrices; kept lists the rows (from 1) of
\* the global matrices that the elimination keeps.
ReducedPosition(kept, d) == (CHOOSE p \in 1..Len(kept) : kept[p] = d + 1) - 1

RenumberedAsReduced ==
    Bind(Kept(asm.fixed_dof, asm.n_dof, 1), LAMBDA kept :
        /\ \A ki \in Restrained : nodes[ki[1]].dofs[ki[2]] = None
        /\ \A ki \in Free :
              nodes[ki[1]].dofs[ki[2]] = Some(ReducedPosition(kept, Orig(ki[1], ki[2])))
        /\ Cardinality({nodes[ki[1]].dofs[ki[2]] : ki \in Free}) = Cardinality(Free)
        /\ {nodes[ki[1]].dofs[ki[2]][1] : ki \in Free} = 0..(Cardinality(Free) - 1))

C3_ReducedSize ==
    asm.status = "ok" =>
        LET n == Cardinality({Orig(ki[1], ki[2]) : ki \in {x \in AllDofs : x[1] \in Referenced(elements)}})
            F == {Orig(ki[1], ki[2]) : ki \in {x \in Restrained : x[1] \in Referenced(elements)}}
            size == n - Cardinality(F)
        IN  /\ Len(asm.reduced_stiffness_matrix) = size
            /\ Len(asm.reduced_mass_matrix) = size
            /\ \A i \in 1..size : /\ Len(asm.reduced_stiffness_matrix[i]) = size
                                  /\ Len(asm.reduced_mass_matrix[i]) = size

\* Two elements share a pinned node: 9 identifiers, 2 restrained, size 7.
C3_Witness ==
    /\ asm.status = "ok"
    /\ Len(nodes) = 3 /\ Len(elements) = 2
    /\ nodes[2].fix_u /\ nodes[2].fix_v /\ NumFixed(nodes) = 2
    /\ Len(asm.reduced_stiffness_matrix) = 7
    /\ Len(asm.reduced_mass_matrix[7]) = 7

\* The nodes as they were constructed (before any reindex_dof call).
NodesAsBuilt ==
    Seq1([k \in 1..Len(nodes) |-> [nodes[k] EXCEPT !.dofs = Seq1(_set_dofs(nodes[k].index))]])
Reverse(seq) == [k \in 1..Len(seq) |-> seq[Len(seq) + 1 - k]]

\* The local positions (1..6) of each element that map to each global
\* position g (from 0), for the nodes as built: where[k][g + 1].
LocalPositions(n) ==
    Bind(NodesAsBuilt, LAMBDA ns :
        Seq1([k \in 1..Len(elements) |->
            Bind(dof_element(ns, elements[k]), LAMBDA dofs :
                Seq1([g \in 1..n |-> {i \in 1..6 : dofs[i] = Some(g - 1)}]))]))

RECURSIVE SumOver(_, _)
SumOver(block, cells) ==
    IF cells = {} THEN 0
    ELSE LET x == CHOOSE y \in cells : TRUE
         IN  block[x[1]][x[2]] + SumOver(block, cells \ {x})

\* Every entry (r, c) of matrix is the sum over all elements of the entries
\* of their rotated matrices whose local row and column map to r and c;
\* blocks[k] is the rotated matrix of element k.
IsSumOfContributions(matrix, blocks) ==
    Bind2(blocks, LocalPositions(Len(matrix)), LAMBDA bs, where :
        \A r, c \in 1..Len(matrix) :
            matrix[r][c] = ISum(Seq1([k \in 1..Len(bs) |->
                                        SumOver(bs[k], where[k][r] \X where[k][c])]),
                                Len(bs)))

\* C4: before the elimination every entry (r, c) of the global stiffness
\* matrix and of the global mass matrix is the sum over all elements of the
\* rotated element entries that map to (r, c), no contribution being
\* overwritten, and the list given in reverse order yields the same matrices.
\* (Looked at when the assembly returns; reindex_dof leaves asm alone.)
C4_AssemblyAccumulates ==
    (asm.status = "ok" /\ calls = 0) =>
        /\ IsSumOfContributions(asm.global_stiffness_matrix,
              Seq1([k \in 1..Len(elements) |->
                    Rotated(create_rotation_matrix(elements[k]), create_stiffness_matrix(elements[k]))]))
        /\ IsSumOfContributions(asm.global_mass_matrix,
              Seq1([k \in 1..Len(elements) |->
                    Rotated(create_rotation_matrix(elements[k]), create_mass_matrix(elements[k]))]))
        /\ Bind(GlobalMatrices(NodesAsBuilt, Reverse(elements)), LAMBDA rev :
               /\ rev.global_stiffness_matrix = asm.global_stiffness_matrix
               /\ rev.global_mass_matrix = asm.global_mass_matrix)

\* Two collinear elements of lengths 2 and 1 share node 1: the diagonal
\* entry of its axial DOF 3 is EA/2 + EA/1 = 3, that of its transverse DOF 4
\* is 12EI/8 + 12EI/1 = 27, and the mass entries are 140 * 2 + 140 * 1 and
\* 156 * 2 + 156 * 1.
C4_Witness ==
    /\ asm.status = "ok" /\ calls = 0
    /\ Len(nodes) = 3 /\ Len(elements) = 2
    /\ asm.global_stiffness_matrix[4][4] = 3
    /\ asm.global_stiffness_matrix[5][5] = 27
    /\ asm.global_mass_matrix[4][4] = 420
    /\ asm.global_mass_matrix[5][5] = 468

DofIds(node) == {node.dofs[i] : i \in 1..3}

\* C5: as long as reindex_dof has not run, every Node with index i carries
\* the DOF identifiers (3i, 3i+1, 3i+2) whatever its coordinates and fix
\* flags; the three identifiers of a node are distinct and nodes with
\* different indices have no identifier in common.
C5_NodeDofsFromIndex ==
    calls = 0 =>
        /\ \A k \in 1..Len(nodes) :
              /\ nodes[k].dofs = <<Some(3 * nodes[k].index),
                                    Some(3 * nodes[k].index + 1),
                                    Some(3 * nodes[k].index + 2)>>
              /\ Cardinality(DofIds(nodes[k])) = 3
        /\ \A k, l \in 1..Len(nodes) :
              nodes[k].index # nodes[l].index => DofIds(nodes[k]) \cap DofIds(nodes[l]) = {}

\* Three nodes at different places, on different supports, the last with
\* index 3, exist.
C5_Witness ==
    /\ calls = 0
    /\ Len(nodes) = 3
    /\ nodes[1].fix_v /\ ~nodes[1].fix_u /\ ~nodes[2].fix_v
    /\ nodes[3].fix_u /\ ~nodes[3].fix_theta
    /\ nodes[3].index = 3
    /\ <<nodes[1].x, nodes[1].y>> # <<nodes[2].x, nodes[2].y>>


(***************************************************************************)
(* Properties of the time integration.                                     *)
(***************************************************************************)
Running == nm.pc \in {"loop", "returned"}
Histories == {"displacements", "velocities", "accelerations"}

\* C6: the initial acceleration a0 held in column 0 of the acceleration
\* history satisfies M a0 = f0 - C v0 - K u0, the whole right-hand side
\* being divided by the mass.
C6_InitialAccelerationSolvesEquation ==
    Running =>
        MatVec(nm.args.mass, GetCol(nm.accelerations, 0))
          = VecSub(VecSub(GetCol(nm.loads, 0), MatVec(nm.damping, nm.args.initial_vel)),
                   MatVec(nm.args.stiffness, nm.args.initial_disp))

\* C7: a call whose stiffness and mass differ in shape raises ValueError at
\* the shape check, before any iteration and without any history; a call
\* whose shapes are equal does not raise ValueError.
C7_ShapeCheck ==
    nm.pc \in {"loop", "returned", "raised"} =>
        IF Shape(nm.args.stiffness) # Shape(nm.args.mass)
        THEN /\ nm.pc = "raised"
             /\ nm.error = "ValueError"
             /\ nm.steps = <<>>
             /\ DOMAIN nm \cap Histories = {}
        ELSE ~(nm.pc = "raised" /\ nm.error = "ValueError")

\* A call with a 2x2 stiffness and a 1x1 mass has raised ValueError.
C7_Witness ==
    /\ nm.pc = "raised"
    /\ nm.error = "ValueError"
    /\ Shape(nm.args.stiffness) = <<2, 2>>
    /\ Shape(nm.args.mass) = <<1, 1>>

\* What C8 says of the histories, the iterations and the writes.
C8_Structure ==
    Running =>
        LET N == Len(nm.args.time)
            n == Len(nm.args.stiffness)
        IN  /\ \A h \in Histories :
                  /\ Len(nm[h]) = n
                  /\ \A r \in 1..n : Len(nm[h][r]) = N
                  /\ nm.writes[h] = [c \in 1..N |-> IF c <= nm.i + 1 THEN 1 ELSE 0]
            /\ GetCol(nm.displacements, 0) = nm.args.initial_disp
            /\ GetCol(nm.velocities, 0) = nm.args.initial_vel
            /\ nm.i <= N - 1
            /\ nm.steps = [k \in 1..nm.i |-> k - 1]
            /\ nm.pc = "returned" => nm.i = N - 1

\* The columns iteration i may read according to C8 as it stands.
C8_ReadsOnlyColumnI ==
    (Running /\ nm.i >= 1) =>
        nm.reads \subseteq ({<<h, nm.i - 1>> : h \in Histories} \cup {<<"loads", nm.i>>})

\* The columns iteration i reads: column i of the three histories, column
\* i+1 of the loads, and column i+1 of the displacements it has just written.
C8_ReadsColumnIAndNewDisplacement ==
    (Running /\ nm.i >= 1) =>
        nm.reads = ({<<h, nm.i - 1>> : h \in Histories}
                        \cup {<<"loads", nm.i>>, <<"displacements", nm.i>>})

\* An iteration leaves every column up to its own i as it was.
C8_KeepsEarlierColumns ==
    (nm.pc = "loop" /\ nm'.pc \in {"loop", "returned"}) =>
        \A h \in Histories : \A c \in 0..nm.i : GetCol(nm'[h], c) = GetCol(nm[h], c)

\* C8 as stated: n-by-N histories starting with the supplied initial
\* conditions, N-1 iterations i = 0..N-2 in increasing order, iteration i
\* writing column i+1 of each history once, reading only column i of the
\* histories and column i+1 of the loads.
C8_LoopAsStated == C8_Structure /\ C8_ReadsOnlyColumnI

\* C8: n-by-N histories whose column 0 of displacement and velocity are the
\* supplied initial conditions; N-1 iterations i = 0..N-2 in increasing
\* order; iteration i writes column i+1 of each history exactly once, reads
\* column i of the histories, column i+1 of the loads and the column i+1 of
\* the displacements written in the same iteration, and rewrites no earlier
\* column; the call ends.
C8_NewmarkLoop ==
    /\ [](C8_Structure /\ C8_ReadsColumnIAndNewDisplacement)
    /\ [][C8_KeepsEarlierColumns]_vars
    /\ <>(nm.pc \in {"returned", "raised"})

\* A call over three samples and two DOFs has returned after the iterations
\* 0 and 1, from non-zero initial conditions.
C8_Witness ==
    /\ nm.pc = "returned"
    /\ nm.steps = <<0, 1>>
    /\ Len(nm.args.stiffness) = 2
    /\ nm.args.initial_disp = Unit(2, 1)
    /\ nm.args.initial_vel = Unit(2, 2)
    /\ nm.args.loads # None
    /\ GetCol(nm.displacements, 2) # GetCol(nm.displacements, 1)


(***************************************************************************)
(* Properties of the modal analysis.                                       *)
(***************************************************************************)
Orderings(n) == {f \in [1..n -> 1..n] : \A a, b \in 1..n : f[a] = f[b] => a = b}

\* C9: the frequencies come in ascending order of the eigenvalues, and one
\* permutation sorts eigenvalues and eigenvector columns: column j of the
\* modeshapes is a positive multiple of the eigenvector the solver paired
\* with the j-th smallest eigenvalue.
C9_SortedPairs ==
    modal.pc = "returned" =>
        LET n == Len(modal.eig.eigenvalues)
            ev == modal.eig.eigenvalues
            out == modal.returned
        IN  /\ Len(out.eigenfrequencies) = n
            /\ \A j, k \in 1..n :
                  j < k => ~RLess(out.eigenfrequencies[k].sqrt_of, out.eigenfrequencies[j].sqrt_of)
            /\ \E perm \in Orderings(n) :
                  /\ \A j, k \in 1..n : j < k => ~RLess(ev[perm[k]], ev[perm[j]])
                  /\ \A j \in 1..n :
                        /\ out.eigenfrequencies[j]
                             = Surd(IF RLess(ev[perm[j]], RZero) THEN RZero ELSE ev[perm[j]])
                        /\ \A r \in 1..n :
                              /\ out.modeshapes[r][j].num = modal.eig.eigenvectors[r][perm[j]]
                              /\ RLess(RZero, out.modeshapes[r][j].over_sqrt)

\* The solver listed the larger eigenvalue of a coupled two-DOF system
\* first, and the call has returned.
C9_Witness ==
    /\ modal.pc = "returned"
    /\ modal.stiffness = Tri(2, 2, -1)
    /\ RLess(modal.eig.eigenvalues[2], modal.eig.eigenvalues[1])
    /\ modal.returned.eigenfrequencies = <<Surd(RInt(1)), Surd(RInt(3))>>

\* v^T M v of column c of the modeshapes, whose entries share one root.
ModalMass(modeshapes, mass, c) ==
    LET v == Seq1([r \in 1..Len(modeshapes) |-> modeshapes[r][c].num])
    IN  RDiv(Dot(v, MatVec(mass, v)), modeshapes[1][c].over_sqrt)

ElementDofs == dof_element(nodes, elements[fat.args.element])
StressesComputed == fat.pc \in {"loop", "returned"} /\ fat.i >= 1

\* C11: an element whose six DOFs are all None has zero normal stress and
\* zero bending stress at both of its ends, whatever the global vector and
\* whatever z.
C11_AllNoneGivesZeroStress ==
    (StressesComputed /\ \A i \in 1..6 : ElementDofs[i] = None) =>
        \A e \in 1..2 : fat.stresses[e] = <<XZero, XZero>>

\* C12: get_stress_history raises ValueError exactly when node is neither
\* "start" nor "end", and then no stress has been computed and there is no
\* series; when it returns, the series has one entry per column of the
\* history and entry i is the normal stress plus the bending stress of the
\* named end, computed from column i.
C12_StressHistory ==
    fat.pc \in {"loop", "returned", "raised"} =>
        LET node == fat.args.node
            history == fat.args.displacements
            end == IF node = "start" THEN 1 ELSE 2
            from_column(i) ==
                displacements_to_stresses(history.columns[i], nodes,
                                          elements[fat.args.element], fat.args.z).stresses[end]
        IN  /\ (node \notin {"start", "end"}) <=> (fat.pc = "raised" /\ fat.error = "ValueError")
            /\ (fat.pc = "raised" /\ fat.error = "ValueError") =>
                    fat.computed = 0 /\ "stress_history" \notin DOMAIN fat
            /\ fat.pc = "returned" =>
                    /\ Len(fat.stress_history) = history.shape[2]
                    /\ fat.computed = history.shape[2]
                    /\ \A i \in 1..history.shape[2] :
                          fat.stress_history[i] = XAdd(from_column(i)[1], from_column(i)[2])

\* A series of two different non-zero stresses was returned for the end
\* node of an element whose two ends have different stresses.
C12_Witness ==
    /\ fat.pc = "returned"
    /\ fat.args.node = "end"
    /\ Len(fat.stress_history) = 2
    /\ fat.stress_history[1] # fat.stress_history[2]
    /\ \A i \in 1..2 : fat.stress_history[i].k = "fin" /\ ~XIsZero(fat.stress_history[i])
    /\ summed_stresses(fat.stresses, 0) # summed_stresses(fat.stresses, 1)

\* C13: no BeamElement has length 0.
C13_NoZeroLengthElement ==
    \A k \in 1..Len(elements) : elements[k].length # 0


(***************************************************************************)
(* Properties of the csv loaders.                                          *)
(***************************************************************************)
\* The records read so far whose index is the index of an earlier record.
RepeatedRecords ==
    {j \in 1..csv.i : \E i \in 1..(j - 1) : csv.file[i].index = csv.file[j].index}

\* C14: in nodes_from_csv and in elements_from_csv every record whose index
\* is the index of an earlier record of the file has a duplicate-index
\* warning logged for it, and the record is still appended to the list.
C14_DuplicateWarned ==
    csv.pc \in {"nodes", "nodes_returned", "elements", "elements_returned"} =>
        /\ RepeatedRecords \subseteq csv.warnings
        /\ csv.pc \in {"nodes", "nodes_returned"} => Len(csv.nodes) = csv.i
        /\ csv.pc \in {"elements", "elements_returned"} => Len(csv.elements) = csv.i


(***************************************************************************)
(* Properties of the SN curve.                                             *)
(***************************************************************************)
\* n <= m for numbers of cycles.
CyclesLeq(n, m) ==
    IF m.k = "inf" THEN TRUE ELSE IF n.k = "inf" THEN FALSE ELSE MGeq(m.v, n.v)

\* C15: get_cycles_at_range returns 2e6 (d_sigma_c / s)^3 for s >= d_sigma_d,
\* 5e6 (d_sigma_d / s)^5 for d_sigma_l <= s < d_sigma_d and infinity for
\* s < d_sigma_l, exactly one of the three cases applying to each s; with
\* detail category 125 it returns 2e6 at s = 125 and 5e6 at s = d_sigma_d;
\* and a larger stress range never has a larger number of cycles.
C15_EurocodeCurve ==
    sn.pc = "asked" =>
        LET curve == sn.curve
            s == sn.stress_range
            high == MGeq(s, curve.d_sigma_d)
            middle == MGeq(s, curve.d_sigma_l) /\ ~MGeq(s, curve.d_sigma_d)
            low == ~MGeq(s, curve.d_sigma_l)
        IN  /\ Cardinality({region \in {"high", "middle", "low"} :
                    \/ region = "high" /\ high
                    \/ region = "middle" /\ middle
                    \/ region = "low" /\ low}) = 1
            /\ high => sn.N = Cycles(MMul(Mono(7, 6), MPow(MDiv(curve.d_sigma_c, s), 3)))
            /\ middle => sn.N = Cycles(MMul(Mono(6, 7), MPow(MDiv(curve.d_sigma_d, s), 5)))
            /\ low => sn.N = np_inf
            /\ curve.d_sigma_c = Mono(0, 3) =>
                    /\ s = Mono(0, 3) => sn.N = Cycles(Mono(7, 6))
                    /\ s = curve.d_sigma_d => sn.N = Cycles(Mono(6, 7))
            /\ \A t \in StressRanges(curve) :
                    MGeq(t, s) => CyclesLeq(get_cycles_at_range(curve, t), sn.N)

\* The curve of category 125 was asked about its constant amplitude fatigue
\* limit, where the two branches meet.
C15_Witness ==
    /\ sn.pc = "asked"
    /\ sn.curve.d_sigma_c = Mono(0, 3)
    /\ sn.stress_range = sn.curve.d_sigma_d
    /\ sn.N = Cycles(Mono(6, 7))
    /\ get_cycles_at_range(sn.curve, MMul(sn.stress_range, <<-1, 0>>)) # sn.N


(***************************************************************************)
(* Properties of reindex_dof on shared nodes and on repeated calls.        *)
(***************************************************************************)
\* The locals of the reindex_dof call that produced nodes, after its first
\* p visits.
AfterVisits(p) ==
    ReindexLoop(SubSeq(Visits(elements), 1, p), 1,
                [nodes |-> NodesAsBuilt, shift |-> 0, handled_nodes |-> {}])
RestrainedOf(k) == {ki \in Restrained : ki[1] = k}
\* The nodes that more than one element references.
SharedNodes ==
    {k \in 1..Len(nodes) :
        Cardinality({e \in 1..Len(elements) : k \in {elements[e].start_node, elements[e].end_node}}) > 1}

\* C16: in one reindex_dof call the dofs of a node are rewritten at its first
\* visit and at no later visit, each restrained DOF of the node adds one to
\* shift at that visit and nothing at a later one, and the elements that
\* share the node reference one renumbered node.
C16_SharedNodeOnce ==
    calls = 1 =>
        LET visits == Visits(elements)
            trace == Seq1([q \in 1..(Len(visits) + 1) |-> AfterVisits(q - 1)])
        IN  /\ trace[Len(visits) + 1].nodes = nodes
            /\ trace[Len(visits) + 1].shift = Cardinality(Restrained)
            /\ \A p \in 1..Len(visits) :
                  LET k == visits[p]
                      before == trace[p]
                      after == trace[p + 1]
                  IN  IF p = FirstVisit(k)
                      THEN /\ after.shift = before.shift + Cardinality(RestrainedOf(k))
                           /\ \A i \in 1..3 :
                                 after.nodes[k].dofs[i] =
                                    IF Flag(k, i) THEN None
                                    ELSE Some(Orig(k, i) - before.shift
                                              - Cardinality({r \in RestrainedOf(k) : r[2] < i}))
                           /\ \A l \in 1..Len(nodes) : l # k => after.nodes[l] = before.nodes[l]
                      ELSE after = before
            /\ \A k \in SharedNodes, e \in 1..Len(elements) :
                  /\ elements[e].start_node = k =>
                        SubSeq(dof_element(nodes, elements[e]), 1, 3) = nodes[k].dofs
                  /\ elements[e].end_node = k =>
                        SubSeq(dof_element(nodes, elements[e]), 4, 6) = nodes[k].dofs

\* Two elements share a roller node, which the call renumbered at its second
\* visit and met again at its third.
C16_Witness ==
    /\ calls = 1
    /\ Len(elements) = 2
    /\ 2 \in SharedNodes
    /\ nodes[2].fix_v /\ ~nodes[2].fix_u
    /\ Visits(elements)[2] = 2 /\ Visits(elements)[3] = 2
    /\ AfterVisits(2).shift > AfterVisits(1).shift
    /\ AfterVisits(3) = AfterVisits(2)

\* C17: after any number of reindex_dof calls every node has the dofs the
\* first call gave it, and (on nodes indexed 0..m-1 and first visited in
\* index order, where the first call numbers the free DOFs from 0) every DOF
\* that is not None is one of 0 .. (number of free DOFs) - 1.
C17_LaterCallsChangeNothing ==
    calls >= 1 =>
        /\ nodes = reindex_dof(NodesAsBuilt, elements)
        /\ (Contiguous /\ VisitedInIndexOrder) =>
              \A ki \in AllDofs :
                 nodes[ki[1]].dofs[ki[2]] # None =>
                    nodes[ki[1]].dofs[ki[2]][1] \in 0..(Cardinality(Free) - 1)


(***************************************************************************)
(* Properties of the elimination and of the scatter indices.               *)
(***************************************************************************)
\* The members of a set of integers in increasing order.
RECURSIVE Ascending(_)
Ascending(S) ==
    IF S = {} THEN <<>>
    ELSE LET least == CHOOSE x \in S : \A y \in S : x <= y
         IN  <<least>> \o Ascending(S \ {least})
\* The matrix of the rows and the columns of A that positions lists.
Restriction(A, positions) ==
    Seq1([a \in 1..Len(positions) |->
        Seq1([b \in 1..Len(positions) |-> A[positions[a]][positions[b]]])])

\* C18: apply_boundary_conditions(matrix, fixed_dof) returns the rows and the
\* columns of matrix whose index is not in fixed_dof, in their order, whatever
\* the order of the list fixed_dof; the reduced stiffness and the reduced
\* mass matrix are obtained from one list, so row k of both belongs to one
\* original DOF.
C18_EliminationByOriginalIndex ==
    (asm.status = "ok" /\ calls = 0) =>
        LET F == {asm.fixed_dof[i] : i \in 1..Len(asm.fixed_dof)}
        IN  Bind(Ascending({p \in 1..asm.n_dof : Some(p - 1) \notin F}), LAMBDA kept :
              /\ asm.reduced_stiffness_matrix = Restriction(asm.global_stiffness_matrix, kept)
              /\ asm.reduced_mass_matrix = Restriction(asm.global_mass_matrix, kept)
              /\ \A order \in ListsOf(F) :
                    /\ apply_boundary_conditions(asm.global_stiffness_matrix, order)
                          = asm.reduced_stiffness_matrix
                    /\ apply_boundary_conditions(asm.global_mass_matrix, order)
                          = asm.reduced_mass_matrix)

\* Three DOFs of two nodes are eliminated, the lowest of them not the first
\* DOF of the structure, so deleting one shifts where the others are.
C18_Witness ==
    /\ asm.status = "ok" /\ calls = 0
    /\ Len(asm.fixed_dof) = 3
    /\ asm.fixed_dof[1] = Some(1)
    /\ asm.fixed_dof[3] = Some(4)
    /\ Len(asm.reduced_stiffness_matrix) = asm.n_dof - 3
    /\ asm.reduced_stiffness_matrix[1][1] = asm.global_stiffness_matrix[1][1]
    /\ asm.reduced_stiffness_matrix[2][2] = asm.global_stiffness_matrix[3][3]

\* The DOF identifiers the assembler scatters with, for the nodes as built.
ScatterIndices == {Orig(ki[1], ki[2]) : ki \in AllDofs}

\* C19: with n the number of distinct DOF identifiers, every scatter index
\* lies in 0..n-1 exactly when the node indices are 0..m-1; the assembly
\* returns matrices in that case and fails with an index error for every
\* other set of node indices.
C19_ContiguousIndices ==
    (asm.status # "none" /\ calls = 0) =>
        /\ (ScatterIndices \subseteq 0..(Cardinality(ScatterIndices) - 1)) <=> Contiguous
        /\ asm.n_dof = Cardinality(ScatterIndices)
        /\ asm.status = "ok" <=> Contiguous
        /\ ~Contiguous =>
              /\ asm.status = "IndexError"
              /\ \E d \in ScatterIndices : d >= asm.n_dof
              /\ DOMAIN asm = {"status", "n_dof"}

\* The assembly of two elements over the node indices 0, 2, 3 has failed.
C19_Witness ==
    /\ asm.status = "IndexError" /\ calls = 0
    /\ Len(nodes) = 3 /\ Len(elements) = 2
    /\ nodes[1].index = 0 /\ nodes[2].index = 2 /\ nodes[3].index = 3
    /\ asm.n_dof = 9


(***************************************************************************)
(* Properties of reindex_dof on copied elements.                           *)
(***************************************************************************)
\* Object a is, of the objects that carry its index, the one visited first.
VisitedFirstOfIndex(a) ==
    \A b \in 1..Len(nodes) : nodes[b].index = nodes[a].index => FirstVisit(a) <= FirstVisit(b)
\* Pairs of distinct Node objects with one index, the first visited before
\* the second.
CopyPairs ==
    {ab \in (1..Len(nodes)) \X (1..Len(nodes)) :
        /\ ab[1] # ab[2]
        /\ nodes[ab[1]].index = nodes[ab[2]].index
        /\ FirstVisit(ab[1]) < FirstVisit(ab[2])}
\* shift when the call that produced nodes came to object a.
ShiftBefore(a) == AfterVisits(FirstVisit(a) - 1).shift

\* C20 as stated: after reindex_dof any two distinct Node objects with one
\* index carry different dofs.
C20_CopiesDiffer ==
    calls = 1 => \A ab \in CopyPairs : nodes[ab[1]].dofs # nodes[ab[2]].dofs

\* C20 amended: of the Node objects with one index reindex_dof renumbers the
\* one it visits first and leaves to every other its identifiers 3*index+k;
\* the first and another carry different dofs exactly when the first has a
\* restrained DOF or was reached with a shift above 0.
C20_OnlyFirstObjectRenumbered ==
    calls = 1 =>
        \A ab \in CopyPairs :
            LET a == ab[1]
                b == ab[2]
            IN  /\ nodes[b].dofs = Seq1(_set_dofs(nodes[b].index))
                /\ VisitedFirstOfIndex(a) =>
                      /\ \A i \in 1..3 :
                            nodes[a].dofs[i] =
                               IF Flag(a, i) THEN None
                               ELSE Some(Orig(a, i) - ShiftBefore(a)
                                         - Cardinality({r \in RestrainedOf(a) : r[2] < i}))
                      /\ (nodes[a].dofs # nodes[b].dofs)
                            <=> (RestrainedOf(a) # {} \/ ShiftBefore(a) > 0)

\* Two copied elements of a chain whose first node is pinned: the copy of
\* the middle node in the first element was renumbered, the one in the
\* second element was not.
C20_Witness ==
    /\ calls = 1
    /\ Len(elements) = 2 /\ Len(nodes) = 4
    /\ <<2, 3>> \in CopyPairs
    /\ nodes[1].fix_u /\ nodes[1].fix_v
    /\ nodes[2].dofs = <<Some(1), Some(2), Some(3)>>
    /\ nodes[3].dofs = <<Some(3), Some(4), Some(5)>>


(***************************************************************************)
(* Properties of the order of assembly and reindexing.                     *)
(***************************************************************************)
\* The DOFs that carry the marker None in the current state.
Marked == {ki \in AllDofs : nodes[ki[1]].dofs[ki[2]] = None}
\* The integer identifiers the nodes carry in the current state.
IntegerIds == {nodes[ki[1]].dofs[ki[2]] : ki \in AllDofs \ Marked}
\* A step that is a call of assemble_system_matrices.
AssemblyStep == asm.status = "none" /\ asm'.status # "none"
\* A step that gives some existing node other dofs.
DofsChange == \E k \in 1..Len(nodes) : nodes'[k].dofs # nodes[k].dofs

\* C21: a call of assemble_system_matrices leaves every Node.dofs as it is,
\* and only a call of reindex_dof changes any of them; once reindex_dof has
\* run on nodes with a restrained DOF the marker None stands in its place,
\* and an assembly called in such a state returns no matrices: n_dof counts
\* None next to the integer identifiers, some element has None among its
\* scatter indices and the call ends with an index error; hence a call that
\* returns matrices was made on nodes without None, that is before the first
\* reindex_dof call when a DOF is restrained.
C21_AssembleBeforeReindex ==
    [][ /\ AssemblyStep => nodes' = nodes
        /\ DofsChange =>
              /\ calls' = calls + 1
              /\ nodes' = reindex_dof(nodes, elements)
              /\ asm' = asm
        /\ (calls >= 1 /\ Ready) => (Marked # {} <=> Restrained # {})
        /\ (AssemblyStep /\ Marked # {}) =>
              /\ calls >= 1
              /\ asm'.n_dof = Cardinality(IntegerIds) + 1
              /\ \E k \in 1..Len(elements), i \in 1..6 :
                    dof_element(nodes, elements[k])[i] = None
              /\ asm'.status = "IndexError"
              /\ DOMAIN asm' = {"status", "n_dof"}
        /\ (AssemblyStep /\ asm'.status = "ok") =>
              /\ Marked = {}
              /\ Restrained # {} => calls = 0
      ]_vars

\* Two nodes indexed 0 and 1, the first clamped: reindex_dof has left
\* (None, None, None) and (0, 1, 2), and the assembly called afterwards has
\* counted four identifiers and failed.
C21_Witness ==
    /\ calls = 1
    /\ Len(nodes) = 2 /\ Len(elements) = 1 /\ Contiguous
    /\ nodes[1].dofs = <<None, None, None>>
    /\ nodes[2].dofs = <<Some(0), Some(1), Some(2)>>
    /\ asm.status = "IndexError"
    /\ asm.n_dof = 4
    /\ DOMAIN asm = {"status", "n_dof"}

====
